---- MODULE Spec2Model ----
(***************************************************************************)
(* A model of Toolshed/Waves.py: wave data acquisition (file naming and    *)
(* the skip-if-present decision), the wave-to-shore angle, the wave        *)
(* climate indicators, the per-transect wave sampler, the shoaling loop,   *)
(* the runup and the storm detection.                                      *)
(*                                                                         *)
(* Conventions.  A float is the exact pair <<numerator, denominator>> with *)
(* a positive denominator; the float NaN is <<0, 0>>.  A value that is     *)
(* either a list or the float NaN is a record [isnan, items].  Times are   *)
(* whole minutes.  Lists are numbered from 1.                              *)
(***************************************************************************)
EXTENDS Integers, Sequences, FiniteSets, TLC

VARIABLES
    files,      \* the file system: the set of full paths that are files
    log,        \* the acquisition calls made so far, one record per call
    lastCmd,    \* the CMScmd of the last Toolbox.CMSDownload dispatch, or "none"
    call,       \* the pure function under evaluation and its arguments
    result,     \* [done, value]: what that function returned, once it ran
    grid,       \* SampleWaves: the wave file read by ReadWaveFile
    gdf,        \* SampleWaves: the transects of TransectInterGDF reached so far
    pc,         \* SampleWaves, TransformWaves: the position in the call
    raised,     \* the exception that ended that call, or "none"
    out,        \* SampleWaves: the twelve output lists
    loc,        \* the locals of that call for the current transect
    Time_1,     \* SampleWaves: the local Time_1 (a timestamp), 0 - 1 if unbound
    Prev3Month, \* SampleWaves: the local Prev3Month (an index), 0 if unbound
    lookups     \* SampleWaves: the grid lookups made for the last date

acqVars == <<files, log, lastCmd>>
fnVars == <<call, result>>
sampVars == <<grid, gdf, pc, raised, out, loc, Time_1, Prev3Month, lookups>>
vars == <<files, log, lastCmd, call, result,
          grid, gdf, pc, raised, out, loc, Time_1, Prev3Month, lookups>>

\* np.nan
NaN == <<0, 0>>

IsNan(x) == x[2] = 0

\* The float of a whole number.
Flt(n) == <<n, 1>>

RECURSIVE GCD(_, _)
GCD(a, b) == IF b = 0 THEN a ELSE GCD(b, a % b)

Abs(n) == IF n < 0 THEN -n ELSE n

\* The pair of a quotient in lowest terms; a zero denominator gives NaN.
FNorm(n, d) ==
    IF d = 0 THEN NaN
    ELSE LET g == GCD(Abs(n), Abs(d))
             sg == IF d < 0 THEN -1 ELSE 1
         IN  <<(sg * n) \div g, (sg * d) \div g>>

\* float + float, float - float, float * float, float / float, abs(float)
FAdd(a, b) ==
    IF IsNan(a) \/ IsNan(b) THEN NaN
    ELSE LET g == GCD(a[2], b[2])
         IN  FNorm(a[1] * (b[2] \div g) + b[1] * (a[2] \div g),
                   (a[2] \div g) * b[2])

FNeg(a) == IF IsNan(a) THEN NaN ELSE <<-a[1], a[2]>>

FSub(a, b) == FAdd(a, FNeg(b))

FMul(a, b) ==
    IF IsNan(a) \/ IsNan(b) THEN NaN
    ELSE LET g1 == GCD(Abs(a[1]), b[2])
             g2 == GCD(Abs(b[1]), a[2])
         IN  FNorm((a[1] \div g1) * (b[1] \div g2),
                   (a[2] \div g2) * (b[2] \div g1))

\* numpy's float division: 0/0 and NaN operands give NaN.  (x/0 for x # 0,
\* an infinity, does not arise in the model.)
FDiv(a, b) ==
    IF IsNan(a) \/ IsNan(b) \/ b[1] = 0 THEN NaN
    ELSE FMul(a, FNorm(b[2], b[1]))

FAbs(a) == IF IsNan(a) THEN NaN ELSE <<Abs(a[1]), a[2]>>

\* Comparisons of floats; every comparison with NaN is False.
FEq(a, b) == ~IsNan(a) /\ ~IsNan(b) /\ a[1] * b[2] = b[1] * a[2]

FLt(a, b) == ~IsNan(a) /\ ~IsNan(b) /\ a[1] * b[2] < b[1] * a[2]

FLe(a, b) == ~IsNan(a) /\ ~IsNan(b) /\ a[1] * b[2] <= b[1] * a[2]

\* The sampler before it is called.
SampleIdle ==
    /\ grid = "none" /\ gdf = <<>> /\ pc = "idle" /\ raised = "none"
    /\ out = <<>> /\ loc = <<>> /\ Time_1 = -1 /\ Prev3Month = 0
    /\ lookups = 0

\* A list, and the float NaN standing where a list is expected.
ListOf(items) == [isnan |-> FALSE, items |-> items]

NanScalar == [isnan |-> TRUE, items |-> <<>>]

(***************************************************************************)
(* Strings, str comparison and the calendar (datetime.strptime, timedelta, *)
(* datetime.strftime) as GetHindcastWaveData and GetForecastWaveData use   *)
(* them.                                                                   *)
(***************************************************************************)

\* The code points of the characters a '%Y-%m-%d' date string is made of.
CharCode == [c \in {"-", "0", "1", "2", "3", "4", "5", "6", "7", "8", "9"} |->
                CASE c = "-" -> 45 [] c = "0" -> 48 [] c = "1" -> 49
                  [] c = "2" -> 50 [] c = "3" -> 51 [] c = "4" -> 52
                  [] c = "5" -> 53 [] c = "6" -> 54 [] c = "7" -> 55
                  [] c = "8" -> 56 [] c = "9" -> 57]

CharAt(s, i) == SubSeq(s, i, i)

\* Python's str < str: the first differing code point decides, a proper
\* prefix is smaller.
RECURSIVE StrLessFrom(_, _, _)
StrLessFrom(a, b, i) ==
    IF i > Len(a) THEN i <= Len(b)
    ELSE IF i > Len(b) THEN FALSE
    ELSE IF CharAt(a, i) = CharAt(b, i) THEN StrLessFrom(a, b, i + 1)
    ELSE CharCode[CharAt(a, i)] < CharCode[CharAt(b, i)]

StrLess(a, b) == StrLessFrom(a, b, 1)

\* min(output['dates']) and max(output['dates']) over a list of str.
StrMin(dates) ==
    CHOOSE s \in {dates[i] : i \in 1..Len(dates)} :
        \A i \in 1..Len(dates) : ~StrLess(dates[i], s)

StrMax(dates) ==
    CHOOSE s \in {dates[i] : i \in 1..Len(dates)} :
        \A i \in 1..Len(dates) : ~StrLess(s, dates[i])

DigitChar == <<"0", "1", "2", "3", "4", "5", "6", "7", "8", "9">>

Str2(n) == DigitChar[((n \div 10) % 10) + 1] \o DigitChar[(n % 10) + 1]

Str4(n) == Str2(n \div 100) \o Str2(n % 100)

Num2(s) == (CharCode[CharAt(s, 1)] - 48) * 10 + (CharCode[CharAt(s, 2)] - 48)

Num4(s) == Num2(SubSeq(s, 1, 2)) * 100 + Num2(SubSeq(s, 3, 4))

IsLeap(y) == y % 4 = 0 /\ (y % 100 # 0 \/ y % 400 = 0)

DaysBeforeMonthTable == <<0, 31, 59, 90, 120, 151, 181, 212, 243, 273, 304, 334>>

DaysInMonthTable == <<31, 28, 31, 30, 31, 30, 31, 31, 30, 31, 30, 31>>

DaysBeforeMonth(y, m) ==
    DaysBeforeMonthTable[m] + (IF m > 2 /\ IsLeap(y) THEN 1 ELSE 0)

DaysInMonth(y, m) ==
    IF m = 2 /\ IsLeap(y) THEN 29 ELSE DaysInMonthTable[m]

DaysBeforeYear(y) ==
    (y - 1) * 365 + (y - 1) \div 4 - (y - 1) \div 100 + (y - 1) \div 400

\* datetime.strptime(s, '%Y-%m-%d') of a zero-padded date: the proleptic
\* Gregorian day number of that date at 00:00:00.
Strptime(s) ==
    LET y == Num4(SubSeq(s, 1, 4))
        m == Num2(SubSeq(s, 6, 7))
        d == Num2(SubSeq(s, 9, 10))
    IN  DaysBeforeYear(y) + DaysBeforeMonth(y, m) + d

\* The year, month and day of a day number, by the division steps of
\* datetime's ordinal-to-date conversion.
OrdToYmd(ord) ==
    LET n0   == ord - 1
        n400 == n0 \div 146097
        r400 == n0 % 146097
        n100 == r400 \div 36524
        r100 == r400 % 36524
        n4   == r100 \div 1461
        r4   == r100 % 1461
        n1   == r4 \div 365
        n    == r4 % 365
        year == n400 * 400 + 1 + n100 * 100 + n4 * 4 + n1
        leap == n1 = 3 /\ (n4 # 24 \/ n100 = 3)
        m0   == (n + 50) \div 32
        p0   == DaysBeforeMonthTable[m0] + (IF m0 > 2 /\ leap THEN 1 ELSE 0)
        mon  == IF p0 > n THEN m0 - 1 ELSE m0
        prec == IF p0 > n
                THEN p0 - (DaysInMonthTable[mon]
                           + (IF mon = 2 /\ leap THEN 1 ELSE 0))
                ELSE p0
    IN  IF n1 = 4 \/ n100 = 4
        THEN <<year - 1, 12, 31>>
        ELSE <<year, mon, n - prec + 1>>

\* datetime.strftime(dt, '%Y-%m-%d %H:%M:%S') of a day number at midnight.
Strftime(ord) ==
    LET ymd == OrdToYmd(ord)
    IN  Str4(ymd[1]) \o "-" \o Str2(ymd[2]) \o "-" \o Str2(ymd[3])
            \o " 00:00:00"

\* os.path.join(a, b) for a relative b.
PathJoin(a, b) ==
    IF a = "" THEN b
    ELSE IF CharAt(a, Len(a)) = "/" THEN a \o b
    ELSE a \o "/" \o b

(***************************************************************************)
(* Wave data acquisition: GetHindcastWaveData and GetForecastWaveData.     *)
(* settings is settings['inputs'] (filepath, sitename), dates is           *)
(* output['dates'], box is the bounding box in hundredths of a degree.     *)
(***************************************************************************)

\* WavePath = os.path.join(settings['inputs']['filepath'], 'tides')
WavePathOf(settings) == PathJoin(settings.filepath, "tides")

\* A deviation of the window start: the first listed date stands in for
\* the smallest one.
HindcastDateMinOfFirst(dates) == Strftime(Strptime(dates[1]) - 90)

\* Buffer dates from output by 3 months.
HindcastDateMin(dates) == Strftime(Strptime(StrMin(dates)) - 90)

HindcastDateMax(dates) == Strftime(Strptime(StrMax(dates)))

HindcastOutFile(settings, dates) ==
    settings.sitename \o "_" \o SubSeq(HindcastDateMin(dates), 1, 10)
        \o "_" \o SubSeq(HindcastDateMax(dates), 1, 10) \o "_waves.nc"

\* The 2-cell buffer: 0.05 degree on every side.
HindcastBox(box) ==
    [lonmin |-> box.lonmin - 5, lonmax |-> box.lonmax + 5,
     latmin |-> box.latmin - 5, latmax |-> box.latmax + 5]

HindcastCmd(settings, dates, box) ==
    [hind_fore |-> "other",
     lonmin |-> HindcastBox(box).lonmin, lonmax |-> HindcastBox(box).lonmax,
     latmin |-> HindcastBox(box).latmin, latmax |-> HindcastBox(box).latmax,
     DateMin |-> HindcastDateMin(dates), DateMax |-> HindcastDateMax(dates),
     WavePath |-> WavePathOf(settings),
     WaveOutFile |-> HindcastOutFile(settings, dates)]

\* Buffer dates from output by 1 day either side.
ForecastDateMin(dates) == Strftime(Strptime(StrMin(dates)) - 1)

\* A deviation of the window end: no day is added after the latest date.
ForecastDateMaxUnbuffered(dates) == Strftime(Strptime(StrMax(dates)))

ForecastDateMax(dates) == Strftime(Strptime(StrMax(dates)) + 1)

ForecastOutFile(settings, dates) ==
    "MetO-NWS-WAV-hi_" \o settings.sitename
        \o "_" \o SubSeq(ForecastDateMin(dates), 1, 10)
        \o "_" \o SubSeq(ForecastDateMax(dates), 1, 10) \o "_waves.nc"

ForecastCmd(settings, dates, box) ==
    [hind_fore |-> "fore",
     lonmin |-> box.lonmin, lonmax |-> box.lonmax,
     latmin |-> box.latmin, latmax |-> box.latmax,
     DateMin |-> ForecastDateMin(dates), DateMax |-> ForecastDateMax(dates),
     WavePath |-> WavePathOf(settings),
     WaveOutFile |-> ForecastOutFile(settings, dates)]

\* A deviation of the existence test: the file is looked up by its bare
\* name, without the directory it is saved in.
IsFileBareName(fs, WavePath, WaveOutFile) == WaveOutFile \in fs

\* os.path.isfile(os.path.join(WavePath, WaveOutFile))
IsFile(fs, WavePath, WaveOutFile) == PathJoin(WavePath, WaveOutFile) \in fs

\* Toolbox.CMSDownload(CMScmd): the transfer either leaves the file at
\* WavePath/WaveOutFile or leaves nothing.
CMSDownload(fs, cmd, ok) ==
    IF ok THEN fs \cup {PathJoin(cmd.WavePath, cmd.WaveOutFile)} ELSE fs

\* The body both entry points share from the existence test on: skip when
\* the file exists, dispatch the download otherwise, return the pair.
Acquire(fn, settings, dates, box, cmd, ok) ==
    LET exists == IsFile(files, cmd.WavePath, cmd.WaveOutFile)
    IN  /\ files' = IF exists THEN files ELSE CMSDownload(files, cmd, ok)
        /\ lastCmd' = IF exists THEN lastCmd ELSE cmd
        /\ log' = Append(log,
                    [fn |-> fn, settings |-> settings, dates |-> dates,
                     box |-> box, existed |-> exists,
                     dispatched |-> ~exists,
                     cmd |-> IF exists THEN "none" ELSE cmd,
                     downloaded |-> ~exists /\ ok,
                     ret |-> <<cmd.WavePath, cmd.WaveOutFile>>])
        /\ UNCHANGED fnVars
        /\ UNCHANGED sampVars

GetHindcastWaveData(settings, dates, box, ok) ==
    Acquire("hindcast", settings, dates, box,
            HindcastCmd(settings, dates, box), ok)

GetForecastWaveData(settings, dates, box, ok) ==
    Acquire("forecast", settings, dates, box,
            ForecastCmd(settings, dates, box), ok)

\* ---- bounds and input sets of the acquisition specifications ----

MaxCalls == 3

MaxObs == 2

AcqSettings ==
    {[filepath |-> "/data", sitename |-> "Site1"],
     [filepath |-> "out/run", sitename |-> "Site2"]}

AcqBoxes ==
    {[lonmin |-> -300, lonmax |-> -250, latmin |-> 5600, latmax |-> 5650],
     [lonmin |-> 100, lonmax |-> 180, latmin |-> 5200, latmax |-> 5300]}

\* The box of the call sequences.
AcqBox == [lonmin |-> -300, lonmax |-> -250, latmin |-> 5600, latmax |-> 5650]

\* Observation date lists of the call sequences: one range in ascending
\* order, and the same range in descending order with a date in between.
AcqDateLists ==
    {<<"2020-01-01", "2020-03-01">>,
     <<"2020-03-01", "2020-02-01", "2020-01-01">>}

NameDates ==
    {"2020-01-01", "2020-03-01", "2019-12-31", "2020-02-29", "2021-03-31",
     "2000-03-30", "1900-03-01", "2020-12-31"}

NameDateLists ==
    UNION {[1..n -> NameDates] : n \in 1..MaxObs}

AcqInit ==
    /\ files = {}
    /\ log = <<>>
    /\ lastCmd = "none"
    /\ call = [fn |-> "none"]
    /\ result = [done |-> FALSE]
    /\ SampleIdle

AcqNext ==
    /\ Len(log) < MaxCalls
    /\ \E settings \in AcqSettings, dates \in AcqDateLists,
          ok \in BOOLEAN :
         \/ GetHindcastWaveData(settings, dates, AcqBox, ok)
         \/ GetForecastWaveData(settings, dates, AcqBox, ok)

\* Sequences of acquisition calls on one file system.
SpecAcq == AcqInit /\ [][AcqNext]_vars

NameNext ==
    /\ Len(log) = 0
    /\ \E settings \in AcqSettings, dates \in NameDateLists,
          box \in AcqBoxes, ok \in BOOLEAN :
         \/ GetHindcastWaveData(settings, dates, box, ok)
         \/ GetForecastWaveData(settings, dates, box, ok)

\* One acquisition call on an empty file system, over a wide date range.
SpecNames == AcqInit /\ [][NameNext]_vars

(***************************************************************************)
(* Properties of the acquisition.                                          *)
(***************************************************************************)

\* The calendar, stepped one day at a time on <<year, month, day>>.
YmdOf(s) == <<Num4(SubSeq(s, 1, 4)), Num2(SubSeq(s, 6, 7)), Num2(SubSeq(s, 9, 10))>>

YmdStr(ymd) == Str4(ymd[1]) \o "-" \o Str2(ymd[2]) \o "-" \o Str2(ymd[3])

YmdLeq(a, b) ==
    \/ a[1] < b[1]
    \/ a[1] = b[1] /\ a[2] < b[2]
    \/ a[1] = b[1] /\ a[2] = b[2] /\ a[3] <= b[3]

NextDay(ymd) ==
    IF ymd[3] < DaysInMonth(ymd[1], ymd[2]) THEN <<ymd[1], ymd[2], ymd[3] + 1>>
    ELSE IF ymd[2] < 12 THEN <<ymd[1], ymd[2] + 1, 1>>
    ELSE <<ymd[1] + 1, 1, 1>>

PrevDay(ymd) ==
    IF ymd[3] > 1 THEN <<ymd[1], ymd[2], ymd[3] - 1>>
    ELSE IF ymd[2] > 1 THEN <<ymd[1], ymd[2] - 1, DaysInMonth(ymd[1], ymd[2] - 1)>>
    ELSE <<ymd[1] - 1, 12, 31>>

\* The Julian day number of a date (Fliegel and Van Flandern).
JulianDay(ymd) ==
    LET a == IF ymd[2] <= 2 THEN -1 ELSE 0
    IN  (1461 * (ymd[1] + 4800 + a)) \div 4
          + (367 * (ymd[2] - 2 - 12 * a)) \div 12
          - (3 * ((ymd[1] + 4900 + a) \div 100)) \div 4
          + ymd[3] - 32075

IsDate(ymd) ==
    /\ ymd[2] \in 1..12
    /\ ymd[3] \in 1..DaysInMonth(ymd[1], ymd[2])

\* The earliest and the latest observation date, by the calendar.
Earliest(dates) ==
    CHOOSE d \in {YmdOf(dates[i]) : i \in 1..Len(dates)} :
        \A i \in 1..Len(dates) : YmdLeq(d, YmdOf(dates[i]))

Latest(dates) ==
    CHOOSE d \in {YmdOf(dates[i]) : i \in 1..Len(dates)} :
        \A i \in 1..Len(dates) : YmdLeq(YmdOf(dates[i]), d)

SameRequest(a, b) ==
    a.fn = b.fn /\ a.settings = b.settings /\ a.dates = b.dates

\* The calls of the log up to call j that make the request of call j.
SameUpTo(j) == {k \in 1..j : SameRequest(log[k], log[j])}

\* C1: whenever every download dispatched for a request left its file, a
\* later call with the same function, settings and observation dates
\* dispatches nothing and returns the pair the first such call returned, and
\* the request has been dispatched exactly once if its first call found no
\* file (never, if another request had already left a file of that name).
C1_DownloadOnce ==
    \A j \in 1..Len(log) :
        LET same  == SameUpTo(j)
            first == CHOOSE k \in same : \A m \in same : k <= m
        IN  (/\ first < j
             /\ \A k \in same : k < j /\ log[k].dispatched => log[k].downloaded)
            => /\ ~log[j].dispatched
               /\ log[j].ret = log[first].ret
               /\ Cardinality({k \in same : log[k].dispatched})
                    = (IF log[first].existed THEN 0 ELSE 1)

\* C1 witness: three calls with one request, the first dispatched the
\* download, the later two found the file.
C1_Witness ==
    /\ Len(log) = 3
    /\ SameRequest(log[1], log[2]) /\ SameRequest(log[2], log[3])
    /\ log[1].dispatched /\ log[1].downloaded
    /\ ~log[2].dispatched /\ ~log[3].dispatched
    /\ log[3].ret = log[1].ret

\* C2: the hindcast file is named <sitename>_<D1>_<D2>_waves.nc, D1 the
\* date 90 days before the earliest observation date and D2 the latest one,
\* whatever the order of the dates and the box; Site1 with 2020-01-01 to
\* 2020-03-01 gives Site1_2019-10-03_2020-03-01_waves.nc.
C2_HindcastName ==
    \A i \in 1..Len(log) :
        log[i].fn = "hindcast" =>
            LET site == log[i].settings.sitename
                name == log[i].ret[2]
                D1   == SubSeq(name, Len(site) + 2, Len(site) + 11)
            IN  /\ IsDate(YmdOf(D1))
                /\ JulianDay(Earliest(log[i].dates)) - JulianDay(YmdOf(D1)) = 90
                /\ name = site \o "_" \o YmdStr(YmdOf(D1))
                            \o "_" \o YmdStr(Latest(log[i].dates)) \o "_waves.nc"
                /\ (/\ site = "Site1"
                    /\ Earliest(log[i].dates) = <<2020, 1, 1>>
                    /\ Latest(log[i].dates) = <<2020, 3, 1>>)
                   => name = "Site1_2019-10-03_2020-03-01_waves.nc"

\* C2 witness: the hindcast call for Site1 with the dates given latest
\* first returned the name of the example.
C2_Witness ==
    /\ Len(log) = 1
    /\ log[1].fn = "hindcast"
    /\ log[1].dates = <<"2020-03-01", "2020-01-01">>
    /\ log[1].ret[2] = "Site1_2019-10-03_2020-03-01_waves.nc"

\* C3: the forecast call requests the window from the day before the
\* earliest observation date to the day after the latest one and names the
\* file MetO-NWS-WAV-hi_<sitename>_<dateMin>_<dateMax>_waves.nc under
\* <filepath>/tides, the two dates being the first 10 characters of the
\* requested window's ends.
C3_ForecastWindowAndName ==
    \A i \in 1..Len(log) :
        log[i].fn = "forecast" =>
            LET dmin == YmdStr(PrevDay(Earliest(log[i].dates)))
                dmax == YmdStr(NextDay(Latest(log[i].dates)))
            IN  /\ log[i].ret[1] = log[i].settings.filepath \o "/tides"
                /\ log[i].ret[2] =
                      "MetO-NWS-WAV-hi_" \o log[i].settings.sitename
                        \o "_" \o dmin \o "_" \o dmax \o "_waves.nc"
                /\ Len(dmin) = 10 /\ Len(dmax) = 10
                /\ log[i].dispatched =>
                      /\ log[i].cmd.DateMin = dmin \o " 00:00:00"
                      /\ log[i].cmd.DateMax = dmax \o " 00:00:00"
                      /\ log[i].cmd.WaveOutFile = log[i].ret[2]
                      /\ log[i].cmd.WavePath = log[i].ret[1]

\* C3 witness: a forecast request whose window crosses a month end on the
\* late side and a year end on the early side.
C3_Witness ==
    /\ Len(log) = 1
    /\ log[1].fn = "forecast" /\ log[1].dispatched
    /\ log[1].cmd.DateMin = "2019-12-31 00:00:00"
    /\ log[1].cmd.DateMax = "2020-03-01 00:00:00"
    /\ log[1].ret[2] = "MetO-NWS-WAV-hi_Site2_2019-12-31_2020-03-01_waves.nc"

(***************************************************************************)
(* The wave-to-shore angle: CalcAlpha(WaveDir, ShoreAngle, Tr).            *)
(* WaveDir holds one entry per transect, a list of directions or the       *)
(* float NaN; ShoreAngle holds one angle per transect.                     *)
(***************************************************************************)

\* Python's a % b for integers and b > 0: the result has the sign of b.
PyMod(a, b) == a % b

\* np.isnan(x).all() for a float or a list of floats.
IsNanAll(x) ==
    x.isnan \/ \A i \in 1..Len(x.items) : IsNan(x.items[i])

\* (Dir - ShoreAngle[Tr]) + 180 % 360-180: % binds tighter than + and -,
\* so the expression is ((Dir - ShoreAngle[Tr]) + (180 % 360)) - 180.
AlphaOf(Dir, Shore) ==
    FSub(FAdd(FSub(Dir, Shore), Flt(PyMod(180, 360))), Flt(180))

CalcAlpha(WaveDir, ShoreAngle, Tr) ==
    IF IsNanAll(WaveDir[Tr]) THEN NanScalar
    ELSE ListOf([i \in 1..Len(WaveDir[Tr].items) |->
                    AlphaOf(WaveDir[Tr].items[i], ShoreAngle[Tr])])

EvalCalcAlpha ==
    /\ call.fn = "CalcAlpha"
    /\ ~result.done
    /\ result' = [done |-> TRUE,
                  value |-> CalcAlpha(call.WaveDir, call.ShoreAngle, call.Tr)]
    /\ UNCHANGED <<files, log, lastCmd, call>>
    /\ UNCHANGED sampVars

\* ---- bounds and input sets of the wave-to-shore angle ----

MaxSeries == 2

AlphaDirs == {Flt(0), Flt(10), Flt(100), Flt(190), Flt(200), Flt(270),
              Flt(350), Flt(360), NaN}

AlphaShores == {Flt(0), Flt(10), Flt(90), Flt(180), Flt(270), Flt(350),
                Flt(360)}

AlphaSeries ==
    {NanScalar}
        \cup {ListOf(l) : l \in UNION {[1..n -> AlphaDirs] : n \in 0..MaxSeries}}

AlphaInit ==
    /\ files = {} /\ log = <<>> /\ lastCmd = "none"
    /\ result = [done |-> FALSE]
    /\ SampleIdle
    /\ \E series \in AlphaSeries, shore \in AlphaShores, tr \in 1..2 :
         call = [fn |-> "CalcAlpha",
                 WaveDir |-> IF tr = 1 THEN <<series, ListOf(<<Flt(45)>>)>>
                             ELSE <<ListOf(<<Flt(45)>>), series>>,
                 ShoreAngle |-> IF tr = 1 THEN <<shore, Flt(45)>>
                                ELSE <<Flt(45), shore>>,
                 Tr |-> tr]

AlphaNext == EvalCalcAlpha

\* CalcAlpha applied once to every drawn input.
SpecAlpha == AlphaInit /\ [][AlphaNext]_vars

\* The wave-to-shore angle of section 4.3 of the specification, for whole
\* degrees.
WrappedAngle(d, shore) == ((((d - shore) + 180) % 360) - 180)

\* C4: for a direction series that is not entirely missing, CalcAlpha
\* returns ((d - shoreAngle) + 180) mod 360 - 180 for every direction d of
\* the series; shore angle 10 and direction 200 give -170.
C4_AlphaIsWrappedDifference ==
    (result.done /\ ~IsNanAll(call.WaveDir[call.Tr])) =>
        /\ ~result.value.isnan
        /\ Len(result.value.items) = Len(call.WaveDir[call.Tr].items)
        /\ \A i \in 1..Len(result.value.items) :
              LET d == call.WaveDir[call.Tr].items[i]
                  shore == call.ShoreAngle[call.Tr]
              IN  ~IsNan(d) =>
                    /\ FEq(result.value.items[i],
                           Flt(WrappedAngle(d[1], shore[1])))
                    /\ (d = Flt(200) /\ shore = Flt(10))
                          => FEq(result.value.items[i], Flt(-170))

\* C5: every alpha CalcAlpha returns for a shore angle and a direction in
\* 0..360 lies in (-180, 180].
C5_AlphaInHalfOpenRange ==
    (result.done /\ ~result.value.isnan) =>
        \A i \in 1..Len(result.value.items) :
            ~IsNan(result.value.items[i]) =>
                /\ FLt(Flt(-180), result.value.items[i])
                /\ FLe(result.value.items[i], Flt(180))

(***************************************************************************)
(* The wave climate indicators: WaveClimateSimple(ShoreAngle, WaveHs,      *)
(* WaveDir, WaveTp, WaveTime).  The series are lists of floats (whole      *)
(* degrees, metres, seconds); WaveTime is a list of timestamps in minutes. *)
(* The powers and the cosine are tabulated to two decimals on the values   *)
(* the inputs take.                                                        *)
(***************************************************************************)

\* K2 / D with K2 = 0.15 and D = 10.
K2OverD == FNorm(15, 1000)

\* np.mean(np.diff(WaveTime)).seconds: the seconds field of the mean
\* difference, which leaves out its whole days.
TimeStepSeconds(WaveTime) ==
    LET n == Len(WaveTime)
    IN  (((WaveTime[n] - WaveTime[1]) * 60) \div (n - 1)) % 86400

\* x % 360 for a float x: the result lies in [0, 360).
FMod360(x) == IF IsNan(x) THEN NaN ELSE FNorm(x[1] % (360 * x[2]), x[2])

\* (ShoreAngle - WaveDir + 180) % 360 - 180
AngleDiffDeg(ShoreAngle, Dir) ==
    FSub(FMod360(FAdd(FSub(ShoreAngle, Dir), Flt(180))), Flt(180))

\* WaveTp ** (1/3): NaN for a negative or missing period.
CubeRoot(Tp) ==
    IF IsNan(Tp) \/ Tp[1] < 0 THEN NaN
    ELSE CASE Tp = Flt(0) -> Flt(0)
           [] Tp = Flt(1) -> Flt(1)
           [] Tp = Flt(8) -> Flt(2)

\* WaveHs ** (12/5): NaN for a negative or missing height; 2 ** 2.4 = 5.3.
Pow12Fifths(Hs) ==
    IF IsNan(Hs) \/ Hs[1] < 0 THEN NaN
    ELSE CASE Hs = Flt(0) -> Flt(0)
           [] Hs = Flt(1) -> Flt(1)
           [] Hs = Flt(2) -> FNorm(53, 10)

\* abs(np.cos(np.radians(a))) ** (1/5) for a whole multiple of 30 degrees.
\* The float cosine of 90 degrees is 6.1e-17, whose fifth root is 0.0006.
AbsCosFifthRoot(a) ==
    CASE Abs(a[1]) \in {0, 180} -> Flt(1)
      [] Abs(a[1]) \in {30, 150} -> FNorm(97, 100)
      [] Abs(a[1]) \in {60, 120} -> FNorm(87, 100)
      [] Abs(a[1]) = 90 -> FNorm(1, 1000)

\* np.sin(np.radians(a)) ** 2 and np.cos(np.radians(a)) ** 2
SinSquared(a) ==
    CASE Abs(a[1]) \in {0, 180} -> Flt(0)
      [] Abs(a[1]) \in {30, 150} -> FNorm(1, 4)
      [] Abs(a[1]) \in {60, 120} -> FNorm(3, 4)
      [] Abs(a[1]) = 90 -> Flt(1)

CosSquared(a) == FSub(Flt(1), SinSquared(a))

\* The per-observation diffusivity: zero for a shadowed wave, and for a
\* missing angle, which fails the test angle_diff <= 0.
MuOf(angle, Hs, Tp) ==
    IF FLe(angle, Flt(0))
    THEN FMul(FMul(FMul(FMul(K2OverD, CubeRoot(Tp)), Pow12Fifths(Hs)),
                   AbsCosFifthRoot(angle)),
              FSub(FMul(FNorm(6, 5), SinSquared(angle)), CosSquared(angle)))
    ELSE Flt(0)

MuValues(ShoreAngle, WaveHs, WaveDir, WaveTp) ==
    [i \in 1..Len(WaveDir) |->
        MuOf(AngleDiffDeg(ShoreAngle, WaveDir[i]), WaveHs[i], WaveTp[i])]

\* np.nansum of a list of floats: NaN entries count as zero.
RECURSIVE NanSumRange(_, _, _)
NanSumRange(xs, lo, hi) ==
    IF lo > hi THEN Flt(0)
    ELSE IF lo = hi THEN (IF IsNan(xs[lo]) THEN Flt(0) ELSE xs[lo])
    ELSE LET mid == (lo + hi) \div 2
         IN  FAdd(NanSumRange(xs, lo, mid), NanSumRange(xs, mid + 1, hi))

NanSum(xs) == NanSumRange(xs, 1, Len(xs))

NanCount(xs) == Cardinality({i \in 1..Len(xs) : ~IsNan(xs[i])})

\* np.nanmean: NaN when no entry is a number.
NanMean(xs) == FDiv(NanSum(xs), Flt(NanCount(xs)))

Scaled(xs, k) == [i \in 1..Len(xs) |-> FMul(xs[i], Flt(k))]

AbsAll(xs) == [i \in 1..Len(xs) |-> FAbs(xs[i])]

\* A deviation of the stability index: the quotient is taken whatever the
\* denominator.
StabilityUnguarded(Stabil_num, Stabil_denom) == FDiv(Stabil_num, Stabil_denom)

\* WaveStability = Stabil_num / Stabil_denom if Stabil_denom != 0 else 0
StabilityOf(Stabil_num, Stabil_denom) ==
    IF Stabil_denom # Flt(0) THEN FDiv(Stabil_num, Stabil_denom) ELSE Flt(0)

WaveClimateSimple(ShoreAngle, WaveHs, WaveDir, WaveTp, WaveTime) ==
    LET TimeStep == TimeStepSeconds(WaveTime)
        mu_values == MuValues(ShoreAngle, WaveHs, WaveDir, WaveTp)
        Stabil_num == NanSum(Scaled(mu_values, TimeStep))
        Stabil_denom == NanSum(Scaled(AbsAll(mu_values), TimeStep))
    IN  [WaveDiffusivity |-> NanMean(mu_values),
         WaveStability |-> StabilityOf(Stabil_num, Stabil_denom)]

EvalWaveClimateSimple ==
    /\ call.fn = "WaveClimateSimple"
    /\ ~result.done
    /\ result' = [done |-> TRUE,
                  value |-> WaveClimateSimple(call.ShoreAngle, call.WaveHs,
                                call.WaveDir, call.WaveTp, call.WaveTime)]
    /\ UNCHANGED <<files, log, lastCmd, call>>
    /\ UNCHANGED sampVars

\* ---- bounds and input sets of the wave climate ----

MaxClimLen == 2

\* One observation: height, direction, period.
ClimObs ==
    ({Flt(0), Flt(1), Flt(2), NaN} \X {Flt(0), Flt(90), Flt(150), NaN}
        \X {Flt(8)})
    \cup {<<Flt(1), Flt(90), Flt(1)>>, <<Flt(2), Flt(150), NaN>>,
          <<Flt(-1), Flt(90), Flt(8)>>, <<Flt(1), Flt(90), Flt(0)>>}

ClimShores == {Flt(90), Flt(360)}

\* The cadence of the wave timestamps in minutes: hourly, 3-hourly, daily.
ClimSteps == {60, 180, 1440}

ClimInit ==
    /\ files = {} /\ log = <<>> /\ lastCmd = "none"
    /\ result = [done |-> FALSE]
    /\ SampleIdle
    /\ \E n \in 2..MaxClimLen, step \in ClimSteps, shore \in ClimShores :
         \E obs \in [1..n -> ClimObs] :
            call = [fn |-> "WaveClimateSimple",
                    ShoreAngle |-> shore,
                    WaveHs |-> [i \in 1..n |-> obs[i][1]],
                    WaveDir |-> [i \in 1..n |-> obs[i][2]],
                    WaveTp |-> [i \in 1..n |-> obs[i][3]],
                    WaveTime |-> [i \in 1..n |-> (i - 1) * step]]

ClimNext == EvalWaveClimateSimple

\* WaveClimateSimple applied once to every drawn input.
SpecClimate == ClimInit /\ [][ClimNext]_vars

CallMu == MuValues(call.ShoreAngle, call.WaveHs, call.WaveDir, call.WaveTp)

\* C6: the stability index WaveClimateSimple returns is a number in
\* [-1, 1], and it is exactly 0 whenever every per-observation mu is zero.
C6_StabilityBounded ==
    result.done =>
        /\ ~IsNan(result.value.WaveStability)
        /\ FLe(Flt(-1), result.value.WaveStability)
        /\ FLe(result.value.WaveStability, Flt(1))
        /\ (\A i \in 1..Len(CallMu) : CallMu[i] = Flt(0))
              => result.value.WaveStability = Flt(0)

\* C6 witness: a series with a negative and a positive mu, whose index lies
\* strictly between -1 and 1 and is not 0.
C6_Witness ==
    /\ result.done
    /\ \E i, j \in 1..Len(CallMu) :
          FLt(CallMu[i], Flt(0)) /\ FLt(Flt(0), CallMu[j])
    /\ FLt(Flt(-1), result.value.WaveStability)
    /\ FLt(result.value.WaveStability, Flt(1))
    /\ result.value.WaveStability # Flt(0)

(***************************************************************************)
(* The transect wave sampler: SampleWaves(settings, TransectInterGDF,      *)
(* WaveFilePath).  The wave file fixes the timestamps WaveTime and, per    *)
(* grid cell, the three series; the transects and their acquisition dates  *)
(* are met one after the other as the loops reach them.                    *)
(***************************************************************************)

\* timedelta(days=90) and timedelta(hours=1), in minutes.
NinetyDays == 129600

OneHour == 60

GridIds == {"hourly", "coarse"}

\* The timestamps of the two wave files: one every hour over 90 days and 3
\* hours, one every 30 days over 150 days.
GridTime ==
    [hourly |-> [k \in 1..2164 |-> (k - 1) * 60],
     coarse |-> [k \in 1..6 |-> (k - 1) * 43200]]

WaveTime == GridTime[grid]

\* The longitude and latitude axes, in hundredths of a degree.
WaveX == <<-300, -275>>

WaveY == <<5600, 5625>>

\* The gap-filled series of a cell: heights 0, 1, 2 m in turn, periods 1 s
\* and 8 s, directions east and west in the hourly file and in steps of 30
\* degrees in the coarse one.
HsAt(g, IDLat, IDLong, k) == Flt((k + IDLat + IDLong - 2) % 3)

DirAt(g, IDLat, IDLong, k) ==
    IF g = "hourly"
    THEN (IF (k + IDLong) % 2 = 0 THEN Flt(90) ELSE Flt(270))
    ELSE Flt(((k * (IDLat + IDLong + 3)) % 12) * 30)

TpAt(g, IDLat, IDLong, k) ==
    IF ((k \div 2) + IDLong) % 2 = 0 THEN Flt(8) ELSE Flt(1)

\* WaveProp[k] for the three parameters "Hs", "Dir", "Tp".
WavePropAt(WaveType, IDLat, IDLong, k) ==
    CASE WaveType = "Hs" -> HsAt(grid, IDLat, IDLong, k)
      [] WaveType = "Dir" -> DirAt(grid, IDLat, IDLong, k)
      [] WaveType = "Tp" -> TpAt(grid, IDLat, IDLong, k)

\* TimeStep, as minutes: the difference of the first two timestamps.
StepMinutes == WaveTime[2] - WaveTime[1]

\* (np.abs(axis - x)).argmin(): the first index of the smallest distance.
ArgMin(axis, x) ==
    CHOOSE i \in 1..Len(axis) :
        /\ \A j \in 1..Len(axis) : Abs(axis[i] - x) <= Abs(axis[j] - x)
        /\ \A j \in 1..(i - 1) : Abs(axis[j] - x) > Abs(axis[i] - x)

\* np.rad2deg(math.atan2(dy, dx)) for a vector along an axis or a diagonal,
\* and for the null vector.
Atan2Deg(dy, dx) ==
    CASE dx = 0 /\ dy > 0 -> 90
      [] dx = 0 /\ dy < 0 -> -90
      [] dy = 0 /\ dx < 0 -> 180
      [] dy = 0 /\ dx >= 0 -> 0
      [] dx > 0 /\ dy = dx -> 45
      [] dx < 0 /\ dy = -dx -> 135
      [] dx < 0 /\ dy = dx -> -135
      [] dx > 0 /\ dy = -dx -> -45

\* A deviation of the shore angle: no reduction by 360.
CalcShoreAngleUnreduced(geometry) ==
    Flt(360 - Atan2Deg(geometry[2][2] - geometry[1][2],
                       geometry[2][1] - geometry[1][1]))

\* CalcShoreAngle on the two points of the transect's geometry.
CalcShoreAngle(geometry) ==
    LET x_on == geometry[1][1]
        y_on == geometry[1][2]
        x_off == geometry[2][1]
        y_off == geometry[2][2]
        ShoreAngle == 360 - Atan2Deg(y_off - y_on, x_off - x_on)
    IN  IF ShoreAngle > 360 THEN Flt(ShoreAngle - 360) ELSE Flt(ShoreAngle)

\* The timestamps of a wave file ascend, so the scans of the list that the
\* source makes (min over a filter, in, index) are made here by bisection,
\* with the same results: FirstAbove is the first position in lo..hi whose
\* item exceeds bound, hi + 1 when there is none.
RECURSIVE FirstAbove(_, _, _, _)
FirstAbove(lst, bound, lo, hi) ==
    IF lo > hi THEN lo
    ELSE LET mid == (lo + hi) \div 2
         IN  IF lst[mid] > bound THEN FirstAbove(lst, bound, lo, mid - 1)
             ELSE FirstAbove(lst, bound, mid + 1, hi)

\* min(item for item in lst if item > bound): <<TRUE, the minimum>>, or
\* <<FALSE, 0>> when no item qualifies (min() raises ValueError).
MinAbove(lst, bound) ==
    LET i == FirstAbove(lst, bound, 1, Len(lst))
    IN  IF i > Len(lst) THEN <<FALSE, 0>> ELSE <<TRUE, lst[i]>>

\* item in lst
Contains(lst, item) ==
    LET i == FirstAbove(lst, item - 1, 1, Len(lst))
    IN  i <= Len(lst) /\ lst[i] = item

\* lst.index(item), and Toolbox.find(item, lst): the first position of an
\* item that is in lst.
IndexOf(lst, item) == FirstAbove(lst, item - 1, 1, Len(lst))

Find(item, lst) == IndexOf(lst, item)

\* A deviation of the interpolation: the time since the earlier timestamp
\* is taken for the time to the later one.
InterpolateFromEarlier(Wave_1, Wave_2, T1, Time_2, DateTimeSat) ==
    FSub(Wave_2, FMul(FSub(Wave_2, Wave_1),
                      FNorm(DateTimeSat - T1, StepMinutes)))

\* TimeDiff = Time_2 - DateTimeSat; TimeProp = TimeDiff / TimeStep;
\* Wave_2 - ((Wave_2 - Wave_1) * TimeProp)
Interpolate(Wave_1, Wave_2, T1, Time_2, DateTimeSat) ==
    FSub(Wave_2, FMul(FSub(Wave_2, Wave_1),
                      FNorm(Time_2 - DateTimeSat, StepMinutes)))

\* The np.nan appended to a seasonal list, and np.mean, np.std,
\* Toolbox.CircMean or Toolbox.CircStd of WaveProp[lo:hi] of a cell, kept as
\* the slice it is taken over; of an empty slice it is NaN.
StatNaN == [isnan |-> TRUE, IDLat |-> 0, IDLong |-> 0, lo |-> 0, hi |-> 0]

StatOver(IDLat, IDLong, lo, hi) ==
    IF lo >= hi THEN StatNaN
    ELSE [isnan |-> FALSE, IDLat |-> IDLat, IDLong |-> IDLong,
          lo |-> lo, hi |-> hi]

\* The window start found for Time_1: the index of Time_1 - 90 days, else
\* of an hour earlier, else of an hour later; else Prev3Month keeps the
\* value it had (prev).
LookBack(T1, prev) ==
    IF Contains(WaveTime, T1 - NinetyDays)
    THEN IndexOf(WaveTime, T1 - NinetyDays)
    ELSE IF Contains(WaveTime, T1 - (NinetyDays + OneHour))
    THEN IndexOf(WaveTime, T1 - (NinetyDays + OneHour))
    ELSE IF Contains(WaveTime, T1 - (NinetyDays - OneHour))
    THEN IndexOf(WaveTime, T1 - (NinetyDays - OneHour))
    ELSE prev

\* Whether one of the three look-back timestamps is in WaveTime.
LookBackFound(T1) ==
    \/ Contains(WaveTime, T1 - NinetyDays)
    \/ Contains(WaveTime, T1 - (NinetyDays + OneHour))
    \/ Contains(WaveTime, T1 - (NinetyDays - OneHour))

\* A deviation of the window test: no date counts as after the window.
AfterWindowNever(DateTimeSat) == FALSE

\* WaveTime[-1] < DateTimeSat
AfterWindow(DateTimeSat) == WaveTime[Len(WaveTime)] < DateTimeSat

\* A deviation for a transect without intersections: empty lists stand in
\* for the nine NaN.
NoIntersectionEmptyLists ==
    [TrWaveHs |-> ListOf(<<>>), TrWaveDir |-> ListOf(<<>>),
     TrWaveTp |-> ListOf(<<>>), TrNormWaveHs |-> ListOf(<<>>),
     TrNormWaveDir |-> ListOf(<<>>), TrNormWaveTp |-> ListOf(<<>>),
     TrStDevWaveHs |-> ListOf(<<>>), TrStDevWaveDir |-> ListOf(<<>>),
     TrStDevWaveTp |-> ListOf(<<>>)]

\* The nine per-date fields of a transect whose InterPnts == []: np.nan.
NoIntersection ==
    [TrWaveHs |-> NanScalar, TrWaveDir |-> NanScalar,
     TrWaveTp |-> NanScalar, TrNormWaveHs |-> NanScalar,
     TrNormWaveDir |-> NanScalar, TrNormWaveTp |-> NanScalar,
     TrStDevWaveHs |-> NanScalar, TrStDevWaveDir |-> NanScalar,
     TrStDevWaveTp |-> NanScalar]

\* The nine empty per-transect lists.
FreshLists ==
    [TrWaveHs |-> ListOf(<<>>), TrWaveDir |-> ListOf(<<>>),
     TrWaveTp |-> ListOf(<<>>), TrNormWaveHs |-> ListOf(<<>>),
     TrNormWaveDir |-> ListOf(<<>>), TrNormWaveTp |-> ListOf(<<>>),
     TrStDevWaveHs |-> ListOf(<<>>), TrStDevWaveDir |-> ListOf(<<>>),
     TrStDevWaveTp |-> ListOf(<<>>)]

\* Append per-transect lists.
AppendTransect(o, l, lists) ==
    [o EXCEPT !.WaveHs = Append(@, lists.TrWaveHs),
              !.WaveDir = Append(@, lists.TrWaveDir),
              !.WaveTp = Append(@, lists.TrWaveTp),
              !.NormWaveHs = Append(@, lists.TrNormWaveHs),
              !.NormWaveDir = Append(@, lists.TrNormWaveDir),
              !.NormWaveTp = Append(@, lists.TrNormWaveTp),
              !.StDevWaveHs = Append(@, lists.TrStDevWaveHs),
              !.StDevWaveDir = Append(@, lists.TrStDevWaveDir),
              !.StDevWaveTp = Append(@, lists.TrStDevWaveTp),
              !.WaveDiffusivity = Append(@, l.TrWaveDiffusivity),
              !.WaveStability = Append(@, l.TrWaveStability)]

\* The transects of the collection are, in turn, one pointing north whose
\* centroid lies in the first cell and one pointing south whose centroid
\* lies in the second.
TransectKinds ==
    <<[geometry |-> << <<0, 0>>, <<0, 1>> >>, centroid |-> <<-298, 5602>>],
      [geometry |-> << <<0, 0>>, <<0, -1>> >>, centroid |-> <<-280, 5610>>]>>

\* The whole-series climate of wave file g at the cell and for the shore
\* angle of a transect.
CellClimate(g, transect) ==
    LET IDLat == ArgMin(WaveY, transect.centroid[2])
        IDLong == ArgMin(WaveX, transect.centroid[1])
        n == Len(GridTime[g])
    IN  WaveClimateSimple(CalcShoreAngle(transect.geometry),
            [k \in 1..n |-> HsAt(g, IDLat, IDLong, k)],
            [k \in 1..n |-> DirAt(g, IDLat, IDLong, k)],
            [k \in 1..n |-> TpAt(g, IDLat, IDLong, k)],
            GridTime[g])

\* Row Tr of TransectInterGDF (geometry and centroid).
KindOf(Tr) == ((Tr - 1) % Len(TransectKinds)) + 1

\* CellClimate, worked out once per wave file and transect.
TransectClimate ==
    [hourly |-> <<CellClimate("hourly", TransectKinds[1]),
                  CellClimate("hourly", TransectKinds[2])>>,
     coarse |-> <<CellClimate("coarse", TransectKinds[1]),
                  CellClimate("coarse", TransectKinds[2])>>]

\* One pass of the transect loop up to the date loop: the cell, the shore
\* angle and the climate; a transect without intersections is finished
\* here, any other one goes on to its dates.
BeginTransect(Tr, interEmpty) ==
    /\ pc = "loop"
    /\ Tr = Len(gdf) + 1
    /\ LET transect == TransectKinds[KindOf(Tr)]
           IDLat == ArgMin(WaveY, transect.centroid[2])
           IDLong == ArgMin(WaveX, transect.centroid[1])
           ShoreAngle == CalcShoreAngle(transect.geometry)
           clim == TransectClimate[grid][KindOf(Tr)]
           l == [IDLat |-> IDLat, IDLong |-> IDLong,
                 ShoreAngle |-> ShoreAngle,
                 TrWaveDiffusivity |-> clim.WaveDiffusivity,
                 TrWaveStability |-> clim.WaveStability,
                 lists |-> IF interEmpty THEN NoIntersection ELSE FreshLists]
           o == [out EXCEPT !.ShoreAngles = Append(@, ShoreAngle)]
       IN  /\ gdf' = Append(gdf, [geometry |-> transect.geometry,
                                  centroid |-> transect.centroid,
                                  interpnt |-> IF interEmpty THEN <<>>
                                               ELSE <<"point">>,
                                  dates |-> <<>>])
           /\ loc' = l
           /\ out' = IF interEmpty THEN AppendTransect(o, l, l.lists) ELSE o
           /\ pc' = IF interEmpty THEN "loop" ELSE "dates"
    /\ lookups' = 0
    /\ UNCHANGED <<grid, raised, Time_1, Prev3Month>>
    /\ UNCHANGED <<files, log, lastCmd, call, result>>

\* A deviation of the append: the list keeps its first entry only.
AppendItemOnce(l, x) == IF l.items = <<>> THEN ListOf(<<x>>) ELSE l

\* WaveSat.append(x)
AppendItem(l, x) == ListOf(Append(l.items, x))

\* One pass of the date loop: the three loops over the parameters for the
\* acquisition time DateTimeSat (minutes).
SampleDate(DateTimeSat) ==
    /\ pc = "dates"
    /\ gdf' = [gdf EXCEPT ![Len(gdf)].dates = Append(@, DateTimeSat)]
    /\ LET n == Len(WaveTime)
           m1 == MinAbove(WaveTime, DateTimeSat - StepMinutes)
           m2 == MinAbove(WaveTime, DateTimeSat)
           T1 == m1[2]
           Time_2 == m2[2]
           i1 == Find(T1, WaveTime)
           i2 == Find(Time_2, WaveTime)
           P3 == LookBack(T1, Prev3Month)
           e == IndexOf(WaveTime, T1)
           inst(WaveType) ==
               Interpolate(WavePropAt(WaveType, loc.IDLat, loc.IDLong, i1),
                           WavePropAt(WaveType, loc.IDLat, loc.IDLong, i2),
                           T1, Time_2, DateTimeSat)
           stat == StatOver(loc.IDLat, loc.IDLong, P3, e)
           L == loc.lists
           withInst == [L EXCEPT !.TrWaveHs = AppendItem(@, inst("Hs")),
                                 !.TrWaveDir = AppendItem(@, inst("Dir")),
                                 !.TrWaveTp = AppendItem(@, inst("Tp"))]
       IN  IF AfterWindow(DateTimeSat)
           THEN /\ loc' = [loc EXCEPT !.lists =
                     [TrWaveHs |-> AppendItem(L.TrWaveHs, NaN),
                      TrWaveDir |-> AppendItem(L.TrWaveDir, NaN),
                      TrWaveTp |-> AppendItem(L.TrWaveTp, NaN),
                      TrNormWaveHs |-> AppendItem(L.TrNormWaveHs, StatNaN),
                      TrNormWaveDir |-> AppendItem(L.TrNormWaveDir, StatNaN),
                      TrNormWaveTp |-> AppendItem(L.TrNormWaveTp, StatNaN),
                      TrStDevWaveHs |-> AppendItem(L.TrStDevWaveHs, StatNaN),
                      TrStDevWaveDir |-> AppendItem(L.TrStDevWaveDir, StatNaN),
                      TrStDevWaveTp |-> AppendItem(L.TrStDevWaveTp, StatNaN)]]
                /\ lookups' = 0
                /\ UNCHANGED <<pc, raised, Time_1, Prev3Month>>
           ELSE IF ~m1[1]
           THEN \* line 288: min() of an empty sequence
                /\ pc' = "raised" /\ raised' = "ValueError"
                /\ lookups' = 0
                /\ UNCHANGED <<loc, Time_1, Prev3Month>>
           ELSE IF ~m2[1]
           THEN \* line 291: min() of an empty sequence
                /\ pc' = "raised" /\ raised' = "ValueError"
                /\ Time_1' = T1
                /\ lookups' = 2
                /\ UNCHANGED <<loc, Prev3Month>>
           ELSE IF P3 = 0
           THEN \* line 323: Prev3Month is read before any assignment
                /\ pc' = "raised" /\ raised' = "UnboundLocalError"
                /\ loc' = [loc EXCEPT !.lists = withInst]
                /\ Time_1' = T1
                /\ lookups' = 12
                /\ UNCHANGED Prev3Month
           ELSE /\ loc' = [loc EXCEPT !.lists =
                     [withInst EXCEPT
                        !.TrNormWaveHs = AppendItem(@, stat),
                        !.TrNormWaveDir = AppendItem(@, stat),
                        !.TrNormWaveTp = AppendItem(@, stat),
                        !.TrStDevWaveHs = AppendItem(@, stat),
                        !.TrStDevWaveDir = AppendItem(@, stat),
                        !.TrStDevWaveTp = AppendItem(@, stat)]]
                /\ Time_1' = T1
                /\ Prev3Month' = P3
                /\ lookups' = IF LookBackFound(T1) THEN 21 ELSE 18
                /\ UNCHANGED <<pc, raised>>
    /\ UNCHANGED <<grid, out>>
    /\ UNCHANGED <<files, log, lastCmd, call, result>>

\* The end of the date loop: append per-transect lists.
EndTransect ==
    /\ pc = "dates"
    /\ out' = AppendTransect(out, loc, loc.lists)
    /\ pc' = "loop"
    /\ UNCHANGED <<grid, gdf, raised, loc, Time_1, Prev3Month, lookups>>
    /\ UNCHANGED <<files, log, lastCmd, call, result>>

\* The end of the transect loop: the twelve lists are returned.
Return ==
    /\ pc = "loop"
    /\ pc' = "returned"
    /\ UNCHANGED <<grid, gdf, raised, out, loc, Time_1, Prev3Month, lookups>>
    /\ UNCHANGED <<files, log, lastCmd, call, result>>

MaxTransects == 2

\* The dates met in one run, over all its transects.
MaxDates == 2

RECURSIVE DatesMet(_)
DatesMet(j) == IF j = 0 THEN 0 ELSE Len(gdf[j].dates) + DatesMet(j - 1)

\* The acquisition times met, relative to the timestamps of the wave file:
\* before the first, between two, on one, on the last, after the last.
SatTimes ==
    LET n == Len(WaveTime)
    IN  IF grid = "hourly"
        THEN {WaveTime[1] - 30, WaveTime[n - 3] + 15, WaveTime[n - 2],
              WaveTime[n - 2] + 45, WaveTime[n], WaveTime[n] + 10}
        ELSE {WaveTime[1] - 30, WaveTime[2] + 1440, WaveTime[4] + 10800,
              WaveTime[5], WaveTime[n], WaveTime[n] + 10}

EmptyOut ==
    [WaveHs |-> <<>>, WaveDir |-> <<>>, WaveTp |-> <<>>,
     NormWaveHs |-> <<>>, NormWaveDir |-> <<>>, NormWaveTp |-> <<>>,
     StDevWaveHs |-> <<>>, StDevWaveDir |-> <<>>, StDevWaveTp |-> <<>>,
     WaveDiffusivity |-> <<>>, WaveStability |-> <<>>, ShoreAngles |-> <<>>]

SampleInit ==
    /\ files = {} /\ log = <<>> /\ lastCmd = "none"
    /\ call = [fn |-> "none"] /\ result = [done |-> FALSE]
    /\ grid \in GridIds
    /\ gdf = <<>> /\ pc = "loop" /\ raised = "none"
    /\ out = EmptyOut /\ loc = <<>>
    /\ Time_1 = -1 /\ Prev3Month = 0 /\ lookups = 0

\* The dates of a transect are time-ordered.
SampleNext ==
    \/ \E Tr \in 1..MaxTransects, interEmpty \in BOOLEAN :
          BeginTransect(Tr, interEmpty)
    \/ \E DateTimeSat \in SatTimes :
          /\ pc = "dates"
          /\ DatesMet(Len(gdf)) < MaxDates
          /\ \A i \in 1..Len(gdf[Len(gdf)].dates) :
                gdf[Len(gdf)].dates[i] < DateTimeSat
          /\ SampleDate(DateTimeSat)
    \/ EndTransect
    \/ Return

SpecSample == SampleInit /\ [][SampleNext]_vars

\* ---- the sampler's claims ----

\* The nine per-date fields of transect j: the appended ones once the
\* transect is finished, the per-transect locals while its dates are met.
TrListsOf(j) ==
    IF j <= Len(out.WaveHs)
    THEN [TrWaveHs |-> out.WaveHs[j], TrWaveDir |-> out.WaveDir[j],
          TrWaveTp |-> out.WaveTp[j], TrNormWaveHs |-> out.NormWaveHs[j],
          TrNormWaveDir |-> out.NormWaveDir[j],
          TrNormWaveTp |-> out.NormWaveTp[j],
          TrStDevWaveHs |-> out.StDevWaveHs[j],
          TrStDevWaveDir |-> out.StDevWaveDir[j],
          TrStDevWaveTp |-> out.StDevWaveTp[j]]
    ELSE loc.lists

InstantOf(j, WaveType) ==
    CASE WaveType = "Hs" -> TrListsOf(j).TrWaveHs.items
      [] WaveType = "Dir" -> TrListsOf(j).TrWaveDir.items
      [] WaveType = "Tp" -> TrListsOf(j).TrWaveTp.items

SeasonalOf(j) ==
    <<TrListsOf(j).TrNormWaveHs.items, TrListsOf(j).TrNormWaveDir.items,
      TrListsOf(j).TrNormWaveTp.items, TrListsOf(j).TrStDevWaveHs.items,
      TrListsOf(j).TrStDevWaveDir.items, TrListsOf(j).TrStDevWaveTp.items>>

\* Date i of transect j has the missing marker in each of the nine lists.
AllMissingAt(j, i) ==
    /\ \A WaveType \in {"Hs", "Dir", "Tp"} :
          /\ Len(InstantOf(j, WaveType)) >= i
          /\ IsNan(InstantOf(j, WaveType)[i])
    /\ \A q \in 1..6 :
          /\ Len(SeasonalOf(j)[q]) >= i
          /\ SeasonalOf(j)[q][i].isnan

\* The cell of transect j, from its centroid and the axes.
CellOf(j) ==
    <<ArgMin(WaveY, gdf[j].centroid[2]), ArgMin(WaveX, gdf[j].centroid[1])>>

\* C7: for an acquisition time t with t_k <= t < t_(k+1) the instantaneous
\* value of each parameter is v_(k+1) - (v_(k+1) - v_k) * (t_(k+1) - t) /
\* step, from the grid entries k and k+1 of the transect's cell, so that
\* t = t_k gives v_k; values 1.0 and 2.0 an hour apart and t 15 minutes
\* after the earlier timestamp give 1.25.
C7_InstantaneousIsInterpolated ==
    \A j \in 1..Len(gdf) : \A i \in 1..Len(gdf[j].dates) :
        LET t == gdf[j].dates[i]
            n == Len(WaveTime)
            step == WaveTime[2] - WaveTime[1]
        IN  (WaveTime[1] <= t /\ t < WaveTime[n]) =>
              LET k == ((t - WaveTime[1]) \div step) + 1
              IN  /\ WaveTime[k] <= t /\ t < WaveTime[k + 1]
                  /\ \A WaveType \in {"Hs", "Dir", "Tp"} :
                    LET v_k == WavePropAt(WaveType, CellOf(j)[1],
                                          CellOf(j)[2], k)
                        v_k1 == WavePropAt(WaveType, CellOf(j)[1],
                                           CellOf(j)[2], k + 1)
                        got == InstantOf(j, WaveType)
                    IN  /\ Len(got) >= i
                        /\ got[i] = FNorm(v_k1[1] * step
                                          - (v_k1[1] - v_k[1])
                                            * (WaveTime[k + 1] - t), step)
                        /\ (t = WaveTime[k]) => got[i] = v_k
                        /\ (/\ step = 60 /\ t = WaveTime[k] + 15
                            /\ v_k = Flt(1) /\ v_k1 = Flt(2))
                              => got[i] = FNorm(125, 100)

\* A returned run whose first transect met a time 15 minutes after a
\* timestamp with heights 1.0 and 2.0 around it, then a time on a timestamp.
C7_Witness ==
    /\ pc = "returned" /\ grid = "hourly" /\ Len(gdf) >= 1
    /\ Len(gdf[1].dates) = 2
    /\ gdf[1].dates[1] = WaveTime[Len(WaveTime) - 3] + 15
    /\ gdf[1].dates[2] = WaveTime[Len(WaveTime) - 2]
    /\ out.WaveHs[1].items = <<FNorm(5, 4), Flt(2)>>

\* C8: a transect whose intersection list is empty has the missing marker
\* for each of its nine per-date fields and its shore angle, diffusivity
\* and stability recorded, and nothing is raised for it.
C8_NoIntersectionAllMissing ==
    /\ \A j \in 1..Len(gdf) :
          gdf[j].interpnt = <<>> =>
            LET kind == KindOf(j)
            IN  /\ Len(out.WaveHs) >= j /\ Len(out.ShoreAngles) >= j
                /\ Len(out.WaveDiffusivity) >= j
                /\ Len(out.WaveStability) >= j
                /\ \A f \in {"WaveHs", "WaveDir", "WaveTp", "NormWaveHs",
                             "NormWaveDir", "NormWaveTp", "StDevWaveHs",
                             "StDevWaveDir", "StDevWaveTp"} :
                      Len(out[f]) >= j /\ out[f][j] = NanScalar
                /\ out.ShoreAngles[j] = CalcShoreAngle(gdf[j].geometry)
                /\ out.WaveDiffusivity[j]
                     = TransectClimate[grid][kind].WaveDiffusivity
                /\ out.WaveStability[j]
                     = TransectClimate[grid][kind].WaveStability
    /\ pc = "raised" => gdf[Len(gdf)].interpnt # <<>>

\* A returned run whose second transect had no intersections.
C8_Witness ==
    /\ pc = "returned" /\ Len(gdf) = 2
    /\ gdf[2].interpnt = <<>>
    /\ out.WaveHs[2] = NanScalar /\ out.StDevWaveTp[2] = NanScalar
    /\ Len(out.WaveStability) = 2 /\ Len(out.ShoreAngles) = 2

\* C9: for an acquisition time after the last wave timestamp the missing
\* marker is appended to each of the nine per-date lists of the transect,
\* and no lookup in the grid is made for it.
C9_AfterLastAllMissing ==
    /\ \A j \in 1..Len(gdf) : \A i \in 1..Len(gdf[j].dates) :
          gdf[j].dates[i] > WaveTime[Len(WaveTime)] => AllMissingAt(j, i)
    /\ \A j \in 1..Len(gdf) :
          (/\ j = Len(gdf) /\ pc \in {"dates", "raised"}
           /\ Len(gdf[j].dates) > 0
           /\ gdf[j].dates[Len(gdf[j].dates)] > WaveTime[Len(WaveTime)])
             => lookups = 0 /\ pc = "dates"

\* A transect that met a time within the window and then one after the
\* last timestamp.
C9_Witness ==
    /\ pc = "dates" /\ Len(gdf) >= 1
    /\ Len(gdf[Len(gdf)].dates) = 2
    /\ gdf[Len(gdf)].dates[1] < WaveTime[Len(WaveTime)]
    /\ gdf[Len(gdf)].dates[2] > WaveTime[Len(WaveTime)]
    /\ AllMissingAt(Len(gdf), 2)
    /\ ~IsNan(loc.lists.TrWaveHs.items[1])
    /\ lookups = 0

\* C10: every acquisition date outside the window of the wave timestamps,
\* before the first as well as after the last, has the missing marker for
\* each of its per-date statistics, and nothing is raised for it.
C10_OutsideWindowAllMissing ==
    \A j \in 1..Len(gdf) : \A i \in 1..Len(gdf[j].dates) :
        (\/ gdf[j].dates[i] < WaveTime[1]
         \/ gdf[j].dates[i] > WaveTime[Len(WaveTime)])
          => /\ AllMissingAt(j, i)
             /\ ~(pc = "raised" /\ j = Len(gdf) /\ i = Len(gdf[j].dates))

(***************************************************************************)
(* Storm events: CalcStorms(WaveTime, SigWaveHeight).  SigWaveHeight is a  *)
(* list over time of lists over y of lists over x of floats.               *)
(***************************************************************************)

\* SigWaveHeight[:, y, x]
Column(SigWaveHeight, y, x) ==
    [t \in 1..Len(SigWaveHeight) |-> SigWaveHeight[t][y][x]]

\* Every entry of the grid, time after time: the pooled series.
RECURSIVE Flatten(_)
Flatten(SigWaveHeight) ==
    IF SigWaveHeight = <<>> THEN <<>>
    ELSE LET first == SigWaveHeight[1]
             row == [q \in 1..(Len(first) * Len(first[1])) |->
                        first[((q - 1) \div Len(first[1])) + 1]
                             [((q - 1) % Len(first[1])) + 1]]
         IN  row \o Flatten(Tail(SigWaveHeight))

\* np.percentile(a, 95) of a series (linear interpolation between the two
\* closest ranks); NaN when an entry is NaN.
Percentile95(a) ==
    IF \E i \in 1..Len(a) : IsNan(a[i]) THEN NaN
    ELSE LET srt == SortSeq(a, LAMBDA u, v : FLt(u, v))
             n == Len(a)
             lo == (95 * (n - 1)) \div 100
             hi == IF lo + 1 > n - 1 THEN n - 1 ELSE lo + 1
             g == FNorm((95 * (n - 1)) % 100, 100)
         IN  FAdd(srt[lo + 1], FMul(g, FSub(srt[hi + 1], srt[lo + 1])))

\* A deviation of the storm limit: one percentile pooled over the grid.
StormLimitPooled(SigWaveHeight, y, x) == Percentile95(Flatten(SigWaveHeight))

\* pct[y, x] of np.percentile(SigWaveHeight, 95, axis=0)
StormLimit(SigWaveHeight, y, x) == Percentile95(Column(SigWaveHeight, y, x))

\* np.where(SigWaveHeight > pct, 1, 0)
CalcStorms(WaveTime_, SigWaveHeight) ==
    [t \in 1..Len(SigWaveHeight) |->
        [y \in 1..Len(SigWaveHeight[t]) |->
            [x \in 1..Len(SigWaveHeight[t][y]) |->
                IF FLt(StormLimit(SigWaveHeight, y, x), SigWaveHeight[t][y][x])
                THEN 1 ELSE 0]]]

EvalCalcStorms ==
    /\ call.fn = "CalcStorms"
    /\ ~result.done
    /\ result' = [done |-> TRUE,
                  value |-> CalcStorms(call.WaveTime, call.SigWaveHeight)]
    /\ UNCHANGED <<files, log, lastCmd, call>>
    /\ UNCHANGED sampVars

\* ---- bounds and input sets of the storm events ----

MaxTimes == 3

StormHeights == {Flt(0), Flt(1), Flt(3), NaN}

\* Grids of one row of two cells.
StormGrids ==
    UNION {[1..n -> {<<<<a, b>>>> : a \in StormHeights, b \in StormHeights}] :
              n \in 1..MaxTimes}

StormInit ==
    /\ files = {} /\ log = <<>> /\ lastCmd = "none"
    /\ result = [done |-> FALSE]
    /\ SampleIdle
    /\ \E g \in StormGrids :
         call = [fn |-> "CalcStorms",
                 WaveTime |-> [t \in 1..Len(g) |-> (t - 1) * 60],
                 SigWaveHeight |-> g]

StormNext == EvalCalcStorms

\* CalcStorms applied once to every drawn grid.
SpecStorms == StormInit /\ [][StormNext]_vars

\* The largest entry of a series without NaN, and the largest of the others.
LargestAt(a) == CHOOSE i \in 1..Len(a) : \A j \in 1..Len(a) : FLe(a[j], a[i])

SecondLargestAt(a) ==
    CHOOSE i \in (1..Len(a)) \ {LargestAt(a)} :
        \A j \in (1..Len(a)) \ {LargestAt(a)} : FLe(a[j], a[i])

\* The 95th percentile of a series of at most 20 entries, none NaN: it lies
\* (n - 1) / 20 of the way down from the largest entry to the second
\* largest.
NearTop(a) ==
    IF Len(a) = 1 THEN a[1]
    ELSE FSub(a[LargestAt(a)],
              FMul(FNorm(Len(a) - 1, 20),
                   FSub(a[LargestAt(a)], a[SecondLargestAt(a)])))

\* C11: CalcStorms returns a grid of the shape of the height grid whose
\* entry (t, cell) is 1 exactly when the height there exceeds the 95th
\* percentile of that cell's own series, a function of that cell's column
\* alone, and 0 otherwise.
C11_StormsPerCell ==
    (call.fn = "CalcStorms" /\ result.done) =>
        LET H == call.SigWaveHeight
            S == result.value
        IN  /\ Len(S) = Len(H)
            /\ \A t \in 1..Len(H) :
                  /\ Len(S[t]) = Len(H[t])
                  /\ \A y \in 1..Len(H[t]) :
                        /\ Len(S[t][y]) = Len(H[t][y])
                        /\ \A x \in 1..Len(H[t][y]) :
                              LET col == [u \in 1..Len(H) |-> H[u][y][x]]
                                  hasNan == \E u \in 1..Len(H) : IsNan(col[u])
                              IN  /\ S[t][y][x] \in {0, 1}
                                  /\ S[t][y][x] = 1 <=>
                                       (~hasNan /\ FLt(NearTop(col), H[t][y][x]))

\* Three times, the second cell always above the first cell's storm, and
\* the first cell's largest height alone flagged.
C11_Witness ==
    /\ call.fn = "CalcStorms" /\ result.done
    /\ call.SigWaveHeight
         = << <<<<Flt(0), Flt(3)>>>>, <<<<Flt(1), Flt(3)>>>>,
              <<<<Flt(0), Flt(3)>>>> >>
    /\ result.value = << <<<<0, 0>>>>, <<<<1, 0>>>>, <<<<0, 0>>>> >>

(***************************************************************************)
(* The shore angle on its own: CalcShoreAngle(TransectInterGDF, Tr), with  *)
(* TransectInterGDF the list of the transects' geometries.                 *)
(***************************************************************************)

EvalCalcShoreAngle ==
    /\ call.fn = "CalcShoreAngle"
    /\ ~result.done
    /\ result' = [done |-> TRUE,
                  value |-> CalcShoreAngle(call.TransectInterGDF[call.Tr])]
    /\ UNCHANGED <<files, log, lastCmd, call>>
    /\ UNCHANGED sampVars

\* The offshore point lies up to MaxReach steps from the onshore one along
\* an axis or a diagonal, or on it.
MaxReach == 3

ShoreGeometries ==
    {<< on, <<on[1] + d[1] * r, on[2] + d[2] * r>> >> :
        on \in {<<0, 0>>, <<7, -4>>},
        d \in (-1..1) \X (-1..1),
        r \in 1..MaxReach}

ShoreInit ==
    /\ files = {} /\ log = <<>> /\ lastCmd = "none"
    /\ result = [done |-> FALSE]
    /\ SampleIdle
    /\ \E geometry \in ShoreGeometries, tr \in 1..2 :
         call = [fn |-> "CalcShoreAngle",
                 TransectInterGDF |->
                     IF tr = 1 THEN <<geometry, << <<0, 0>>, <<1, 0>> >> >>
                     ELSE << << <<0, 0>>, <<1, 0>> >>, geometry>>,
                 Tr |-> tr]

ShoreNext == EvalCalcShoreAngle

\* CalcShoreAngle applied once to every drawn transect.
SpecShore == ShoreInit /\ [][ShoreNext]_vars

\* The angle, clockwise from north, of the seaward normal of section 4 for
\* a transect heading (dx, dy): 360 minus the anticlockwise angle from
\* east, brought into (0, 360].
Sign(n) == IF n > 0 THEN 1 ELSE IF n < 0 THEN -1 ELSE 0

ClockwiseOf(dx, dy) ==
    LET h == <<Sign(dx), Sign(dy)>>
    IN  CASE h = <<1, 0>> -> 360
          [] h = <<1, -1>> -> 45
          [] h = <<0, -1>> -> 90
          [] h = <<-1, -1>> -> 135
          [] h = <<-1, 0>> -> 180
          [] h = <<-1, 1>> -> 225
          [] h = <<0, 1>> -> 270
          [] h = <<1, 1>> -> 315
          [] h = <<0, 0>> -> 360

\* C12: CalcShoreAngle returns 360 - degrees(atan2(y_off - y_on, x_off -
\* x_on)), less 360 when that exceeds 360, a value in (0, 360]; for the
\* transect from (0,0) to (0,1) it returns 270.
C12_ShoreAngleRange ==
    (call.fn = "CalcShoreAngle" /\ result.done) =>
        LET g == call.TransectInterGDF[call.Tr]
            r == result.value
        IN  /\ FLt(Flt(0), r) /\ FLe(r, Flt(360))
            /\ r = Flt(ClockwiseOf(g[2][1] - g[1][1], g[2][2] - g[1][2]))
            /\ (g = << <<0, 0>>, <<0, 1>> >>) => r = Flt(270)

\* A transect heading south-east, whose 360 - atan2 is 405 before the
\* reduction.
C12_Witness ==
    /\ call.fn = "CalcShoreAngle" /\ result.done
    /\ call.TransectInterGDF[call.Tr] = << <<7, -4>>, <<9, -6>> >>
    /\ result.value = Flt(45)

(***************************************************************************)
(* Wave runup: CalcRunup(WaveHs, WaveTp=None, Model).  WaveHs is a list    *)
(* with, per transect, a list of heights or the float NaN; WaveTp is None  *)
(* ([isnone |-> TRUE]) or such a list of periods.  The hyperbolic tangent  *)
(* and the square root are tabulated to two decimals on the values the     *)
(* inputs take.                                                            *)
(***************************************************************************)

\* 2.14 * np.tanh(0.4 * Hs)
Senechal(Hs) ==
    IF IsNan(Hs) THEN NaN
    ELSE CASE Hs = Flt(0) -> Flt(0)
           [] Hs = Flt(1) -> FNorm(81, 100)
           [] Hs = Flt(2) -> FNorm(142, 100)

\* L0 = (9.8 * Tp**2) / (2 * np.pi); 0.043 * (Hs * L0)**0.5
Stockdon(Hs, Tp) ==
    IF IsNan(Hs) \/ IsNan(Tp) THEN NaN
    ELSE CASE Hs = Flt(0) \/ Tp = Flt(0) -> Flt(0)
           [] Hs = Flt(1) /\ Tp = Flt(1) -> FNorm(5, 100)
           [] Hs = Flt(2) /\ Tp = Flt(1) -> FNorm(8, 100)
           [] Hs = Flt(1) /\ Tp = Flt(8) -> FNorm(43, 100)
           [] Hs = Flt(2) /\ Tp = Flt(8) -> FNorm(61, 100)

\* The exception raised for observation i of transect Tr, or "none": for
\* 'Stockdon' by the subscripts of WaveTp[Tr][i] (None or a float is not
\* subscriptable, a list may be too short); for any other model than the
\* two by the append of a runup that was never assigned.
RunupErrorAt(WaveHs, WaveTp, Model, Tr, i) ==
    IF Model = "Senechal" THEN "none"
    ELSE IF Model = "Stockdon"
    THEN (IF WaveTp.isnone THEN "TypeError"
          ELSE IF Tr > Len(WaveTp.items) THEN "IndexError"
          ELSE IF WaveTp.items[Tr].isnan THEN "TypeError"
          ELSE IF i > Len(WaveTp.items[Tr].items) THEN "IndexError"
          ELSE "none")
    ELSE "UnboundLocalError"

\* A deviation of the per-transect entry: an empty list where the height
\* entry is not a list.
RunupTrEmptyForNan(WaveHs, WaveTp, Model, Tr) ==
    IF WaveHs[Tr].isnan THEN ListOf(<<>>)
    ELSE ListOf([i \in 1..Len(WaveHs[Tr].items) |->
                    IF Model = "Senechal" THEN Senechal(WaveHs[Tr].items[i])
                    ELSE Stockdon(WaveHs[Tr].items[i],
                                  WaveTp.items[Tr].items[i])])

\* RunupTr of transect Tr when no observation raises.
RunupTr(WaveHs, WaveTp, Model, Tr) ==
    IF WaveHs[Tr].isnan THEN NanScalar
    ELSE ListOf([i \in 1..Len(WaveHs[Tr].items) |->
                    IF Model = "Senechal" THEN Senechal(WaveHs[Tr].items[i])
                    ELSE Stockdon(WaveHs[Tr].items[i],
                                  WaveTp.items[Tr].items[i])])

CalcRunup(WaveHs, WaveTp, Model) ==
    LET obs == UNION {{<<Tr, i>> : i \in 1..Len(WaveHs[Tr].items)} :
                         Tr \in 1..Len(WaveHs)}
        bad == {ob \in obs :
                   RunupErrorAt(WaveHs, WaveTp, Model, ob[1], ob[2]) # "none"}
        first == CHOOSE ob \in bad :
                    \A o2 \in bad : \/ ob[1] < o2[1]
                                    \/ ob[1] = o2[1] /\ ob[2] <= o2[2]
    IN  IF bad = {}
        THEN [raised |-> "none",
              Runups |-> [Tr \in 1..Len(WaveHs) |->
                             RunupTr(WaveHs, WaveTp, Model, Tr)]]
        ELSE [raised |-> RunupErrorAt(WaveHs, WaveTp, Model,
                                      first[1], first[2]),
              Runups |-> <<>>]

EvalCalcRunup ==
    /\ call.fn = "CalcRunup"
    /\ ~result.done
    /\ result' = [done |-> TRUE,
                  value |-> CalcRunup(call.WaveHs, call.WaveTp, call.Model)]
    /\ UNCHANGED <<files, log, lastCmd, call>>
    /\ UNCHANGED sampVars

\* ---- bounds and input sets of the runup ----

MaxRunupTransects == 2

MaxRunupObs == 2

RunupHeightLists ==
    {NanScalar} \cup
    {ListOf(l) : l \in UNION {[1..n -> {Flt(1), Flt(2)}] : n \in 0..MaxRunupObs}}

RunupHeights == UNION {[1..n -> RunupHeightLists] : n \in 0..MaxRunupTransects}

\* The periods handed over with the heights WaveHs: none, lists of the
\* shape of WaveHs, the float NaN for every transect, lists one observation
\* short, or a list one transect short.
RunupPeriods(WaveHs, shape) ==
    LET like(h) == IF h.isnan THEN NanScalar
                   ELSE ListOf([i \in 1..Len(h.items) |->
                                   IF i % 2 = 1 THEN Flt(8) ELSE Flt(1)])
        short(h) == IF h.isnan \/ h.items = <<>> THEN h
                    ELSE ListOf(SubSeq(like(h).items, 1, Len(h.items) - 1))
    IN  CASE shape = "none" -> [isnone |-> TRUE, items |-> <<>>]
          [] shape = "same" ->
               [isnone |-> FALSE,
                items |-> [Tr \in 1..Len(WaveHs) |-> like(WaveHs[Tr])]]
          [] shape = "nan" ->
               [isnone |-> FALSE,
                items |-> [Tr \in 1..Len(WaveHs) |-> NanScalar]]
          [] shape = "short" ->
               [isnone |-> FALSE,
                items |-> [Tr \in 1..Len(WaveHs) |-> short(WaveHs[Tr])]]
          [] shape = "fewer" ->
               [isnone |-> FALSE,
                items |-> [Tr \in 1..(Len(WaveHs) - 1) |-> like(WaveHs[Tr])]]

RunupInit ==
    /\ files = {} /\ log = <<>> /\ lastCmd = "none"
    /\ result = [done |-> FALSE]
    /\ SampleIdle
    /\ \E WaveHs \in RunupHeights,
          shape \in {"none", "same", "nan", "short", "fewer"},
          Model \in {"Senechal", "Stockdon", "Other"} :
         call = [fn |-> "CalcRunup", WaveHs |-> WaveHs,
                 WaveTp |-> RunupPeriods(WaveHs, shape), Model |-> Model]

RunupNext == EvalCalcRunup

\* CalcRunup applied once to every drawn input.
SpecRunup == RunupInit /\ [][RunupNext]_vars

\* The call returned a list shaped like the heights: one entry per
\* transect, NaN where the height entry is no list, else one value per
\* observation.
RunupShaped ==
    /\ result.value.raised = "none"
    /\ Len(result.value.Runups) = Len(call.WaveHs)
    /\ \A Tr \in 1..Len(call.WaveHs) :
          IF call.WaveHs[Tr].isnan
          THEN result.value.Runups[Tr] = NanScalar
          ELSE /\ ~result.value.Runups[Tr].isnan
               /\ Len(result.value.Runups[Tr].items)
                    = Len(call.WaveHs[Tr].items)

\* WaveTp holds a period for every observation of WaveHs.
PeriodsCover ==
    /\ ~call.WaveTp.isnone
    /\ \A Tr \in 1..Len(call.WaveHs) :
          Len(call.WaveHs[Tr].items) > 0 =>
              /\ Tr <= Len(call.WaveTp.items)
              /\ ~call.WaveTp.items[Tr].isnan
              /\ Len(call.WaveTp.items[Tr].items)
                   >= Len(call.WaveHs[Tr].items)

\* C13 as stated: for Model 'Senechal' or 'Stockdon', CalcRunup returns a
\* list with one entry per transect, NaN where the height entry is not a
\* list and else one runup per observation.
C13_RunupShapedForBothModels ==
    (call.fn = "CalcRunup" /\ result.done
        /\ call.Model \in {"Senechal", "Stockdon"}) => RunupShaped

\* C13 amended: for Model 'Senechal', and for Model 'Stockdon' when WaveTp
\* holds a period for every observation of WaveHs, CalcRunup returns a list
\* with one entry per transect, NaN where the height entry is not a list
\* and else one runup per observation.
C13_RunupShapedWithPeriods ==
    (call.fn = "CalcRunup" /\ result.done
        /\ (\/ call.Model = "Senechal"
            \/ call.Model = "Stockdon" /\ PeriodsCover)) => RunupShaped

\* A Stockdon call on a transect without heights and one with two.
C13_Witness ==
    /\ call.fn = "CalcRunup" /\ result.done
    /\ call.Model = "Stockdon" /\ PeriodsCover
    /\ call.WaveHs = <<NanScalar, ListOf(<<Flt(1), Flt(2)>>)>>
    /\ result.value.raised = "none"
    /\ result.value.Runups
         = <<NanScalar, ListOf(<<FNorm(43, 100), FNorm(8, 100)>>)>>

(***************************************************************************)
(* The degree-based wave climate: WaveClimate(ShoreAngle, WaveHs, WaveDir, *)
(* WaveTp, WaveTime).  math.cos and math.sin take Alpha, a number of       *)
(* degrees, as radians; their terms are tabulated to one and two decimals  *)
(* on the whole multiples of 30 the inputs give.                           *)
(***************************************************************************)

\* T**(1./5.): NaN for a negative or missing period; 8 ** 0.2 = 1.5.
FifthRoot(T) ==
    IF IsNan(T) \/ T[1] < 0 THEN NaN
    ELSE CASE T = Flt(0) -> Flt(0)
           [] T = Flt(1) -> Flt(1)
           [] T = Flt(8) -> FNorm(15, 10)

\* Term4 = abs(math.cos(Alpha))**(1./5.) * (math.cos(Alpha) / abs(math.cos(Alpha)))
Term4Of(Alpha) ==
    IF IsNan(Alpha) THEN NaN
    ELSE CASE Abs(Alpha[1]) = 0 -> Flt(1)
           [] Abs(Alpha[1]) = 30 -> FNorm(7, 10)
           [] Abs(Alpha[1]) = 60 -> Flt(-1)
           [] Abs(Alpha[1]) = 90 -> FNorm(-9, 10)
           [] Abs(Alpha[1]) = 120 -> Flt(1)
           [] Abs(Alpha[1]) = 150 -> FNorm(9, 10)
           [] Abs(Alpha[1]) = 180 -> FNorm(-9, 10)

\* Term5 - Term6 = (6./5.) * math.sin(Alpha)**2. - math.cos(Alpha)**2
Term5Minus6Of(Alpha) ==
    IF IsNan(Alpha) THEN NaN
    ELSE CASE Abs(Alpha[1]) = 0 -> Flt(-1)
           [] Abs(Alpha[1]) = 30 -> FNorm(115, 100)
           [] Abs(Alpha[1]) = 60 -> FNorm(-80, 100)
           [] Abs(Alpha[1]) = 90 -> FNorm(76, 100)
           [] Abs(Alpha[1]) = 120 -> FNorm(-26, 100)
           [] Abs(Alpha[1]) = 150 -> FNorm(12, 100)
           [] Abs(Alpha[1]) = 180 -> FNorm(41, 100)

\* Alpha = ((ShoreAngle - WaveDir[i]) + 180) % 360-180
AlphaDeg(ShoreAngle, Dir) ==
    FSub(FMod360(FAdd(FSub(ShoreAngle, Dir), Flt(180))), Flt(180))

\* One entry of Mu: 0.0 for a shadowed wave (Alpha > 0, which a missing
\* Alpha is not).
MuDegOf(Alpha, H0, T) ==
    IF FLt(Flt(0), Alpha) THEN Flt(0)
    ELSE FMul(FMul(FMul(K2OverD, FifthRoot(T)), Pow12Fifths(H0)),
              FMul(Term4Of(Alpha), Term5Minus6Of(Alpha)))

MuDeg(ShoreAngle, WaveHs, WaveDir, WaveTp) ==
    [i \in 1..Len(WaveDir) |->
        MuDegOf(AlphaDeg(ShoreAngle, WaveDir[i]), WaveHs[i], WaveTp[i])]

\* np.sum of a list of floats: NaN when an entry is NaN.
RECURSIVE NpSum(_)
NpSum(xs) == IF xs = <<>> THEN Flt(0) ELSE FAdd(xs[1], NpSum(Tail(xs)))

\* A deviation of the stability index: the guard of WaveClimateSimple.
StabilityDegGuarded(Stabil_num, Stabil_denom) ==
    IF Stabil_denom # Flt(0) THEN FDiv(Stabil_num, Stabil_denom) ELSE Flt(0)

\* np.sum(...) / np.sum(...): a division of numpy floats, NaN for 0/0.
StabilityDeg(Stabil_num, Stabil_denom) == FDiv(Stabil_num, Stabil_denom)

WaveClimate(ShoreAngle, WaveHs, WaveDir, WaveTp, WaveTime_) ==
    LET TimeStep == TimeStepSeconds(WaveTime_)
        Mu == MuDeg(ShoreAngle, WaveHs, WaveDir, WaveTp)
    IN  [WaveDiffusivity |->
             FDiv(NpSum(Scaled(Mu, TimeStep)), Flt(Len(Mu) * TimeStep)),
         WaveStability |->
             StabilityDeg(NpSum(Scaled(Mu, TimeStep)),
                          NpSum(Scaled(AbsAll(Mu), TimeStep)))]

EvalWaveClimate ==
    /\ call.fn = "WaveClimate"
    /\ ~result.done
    /\ result' = [done |-> TRUE,
                  value |-> WaveClimate(call.ShoreAngle, call.WaveHs,
                                call.WaveDir, call.WaveTp, call.WaveTime)]
    /\ UNCHANGED <<files, log, lastCmd, call>>
    /\ UNCHANGED sampVars

\* Both variants of the climate, each applied once to every drawn input.
ClimBothInit ==
    /\ files = {} /\ log = <<>> /\ lastCmd = "none"
    /\ result = [done |-> FALSE]
    /\ SampleIdle
    /\ \E n \in 2..MaxClimLen, step \in ClimSteps, shore \in ClimShores,
          fn \in {"WaveClimate", "WaveClimateSimple"} :
         \E obs \in [1..n -> ClimObs] :
            call = [fn |-> fn,
                    ShoreAngle |-> shore,
                    WaveHs |-> [i \in 1..n |-> obs[i][1]],
                    WaveDir |-> [i \in 1..n |-> obs[i][2]],
                    WaveTp |-> [i \in 1..n |-> obs[i][3]],
                    WaveTime |-> [i \in 1..n |-> (i - 1) * step]]

ClimBothNext == EvalWaveClimate \/ EvalWaveClimateSimple

SpecClimateBoth == ClimBothInit /\ [][ClimBothNext]_vars

\* The angle a climate variant tests for shadowing at observation i, and
\* the mu it gives the observation.
TestedAngle(i) ==
    IF call.fn = "WaveClimate"
    THEN AlphaDeg(call.ShoreAngle, call.WaveDir[i])
    ELSE AngleDiffDeg(call.ShoreAngle, call.WaveDir[i])

MuGiven(i) ==
    IF call.fn = "WaveClimate"
    THEN MuDeg(call.ShoreAngle, call.WaveHs, call.WaveDir, call.WaveTp)[i]
    ELSE MuValues(call.ShoreAngle, call.WaveHs, call.WaveDir, call.WaveTp)[i]

\* C14: for every shore angle and wave direction, the signed angle that
\* WaveClimateSimple and WaveClimate test for shadowing is the alpha of
\* section 4.3, ((direction - shoreAngle) + 180) mod 360 - 180, which is
\* what CalcAlpha gives for them; a wave whose alpha is positive has mu 0.
C14_ShadowAngleIsAlpha ==
    (result.done /\ call.fn \in {"WaveClimate", "WaveClimateSimple"}) =>
        \A i \in 1..Len(call.WaveDir) :
            ~IsNan(call.WaveDir[i]) =>
                LET alpha == Flt(WrappedAngle(call.WaveDir[i][1],
                                              call.ShoreAngle[1]))
                IN  /\ FEq(TestedAngle(i), alpha)
                    /\ FEq(TestedAngle(i),
                           AlphaOf(call.WaveDir[i], call.ShoreAngle))
                    /\ FLt(Flt(0), alpha) => MuGiven(i) = Flt(0)

\* C15: when the stability denominator sum(|mu| * dt) of WaveClimate is
\* zero, the stability index it returns is 0.
C15_DegStabilityZeroWhenNoEnergy ==
    (result.done /\ call.fn = "WaveClimate") =>
        LET Mu == MuDeg(call.ShoreAngle, call.WaveHs, call.WaveDir,
                        call.WaveTp)
            denom == NpSum(Scaled(AbsAll(Mu),
                                  TimeStepSeconds(call.WaveTime)))
        IN  denom = Flt(0) => result.value.WaveStability = Flt(0)

\* C16: for every acquisition date not after the last wave timestamp, the
\* seasonal mean and the seasonal standard deviation of each parameter are
\* taken over the same range [s, e) of the transect's cell, e the index of
\* the date's Time_1 and s the index of Time_1 - 90 days if that timestamp
\* exists, else of an hour earlier, else of an hour later.  (Stated for the
\* dates from the first timestamp on and before the last.)
C16_SeasonalWindow ==
    \A j \in 1..Len(gdf) : \A i \in 1..Len(gdf[j].dates) :
        LET t == gdf[j].dates[i]
            T1 == MinAbove(WaveTime, t - StepMinutes)[2]
            e == IndexOf(WaveTime, T1)
            start == LookBack(T1, 0)
        IN  (WaveTime[1] <= t /\ t < WaveTime[Len(WaveTime)]) =>
              \A q \in 1..6 :
                  /\ Len(SeasonalOf(j)[q]) >= i
                  /\ start # 0 =>
                       SeasonalOf(j)[q][i]
                         = StatOver(CellOf(j)[1], CellOf(j)[2], start, e)

\* C17: the seasonal statistics recorded for a date come from that date
\* and the wave grid alone: each is taken over the window [s, e) that the
\* date's own Time_1 gives, as in a run that meets this date first, and no
\* window start found for an earlier date or transect is used for it.
C17_DatesIndependent ==
    \A j \in 1..Len(gdf) : \A i \in 1..Len(gdf[j].dates) :
        LET t == gdf[j].dates[i]
            T1 == MinAbove(WaveTime, t - StepMinutes)[2]
            e == IndexOf(WaveTime, T1)
        IN  t <= WaveTime[Len(WaveTime)] =>
              \A q \in 1..6 :
                  Len(SeasonalOf(j)[q]) >= i =>
                      /\ LookBackFound(T1)
                      /\ SeasonalOf(j)[q][i]
                           = StatOver(CellOf(j)[1], CellOf(j)[2],
                                      LookBack(T1, 0), e)

\* C18: when SampleWaves returns, each of the twelve output lists has one
\* entry per transect, in transect order, and for a transect with
\* intersections each of its nine per-date lists has one entry per date of
\* the transect, entry i being that of date i.
C18_OutputShape ==
    pc = "returned" =>
        /\ \A f \in DOMAIN out : Len(out[f]) = Len(gdf)
        /\ \A j \in 1..Len(gdf) :
              /\ out.ShoreAngles[j] = CalcShoreAngle(gdf[j].geometry)
              /\ out.WaveDiffusivity[j]
                   = TransectClimate[grid][KindOf(j)].WaveDiffusivity
              /\ gdf[j].interpnt # <<>> =>
                    /\ \A WaveType \in {"Hs", "Dir", "Tp"} :
                          Len(InstantOf(j, WaveType)) = Len(gdf[j].dates)
                    /\ \A q \in 1..6 :
                          Len(SeasonalOf(j)[q]) = Len(gdf[j].dates)
                    /\ \A i \in 1..Len(gdf[j].dates) :
                          \A WaveType \in {"Hs", "Dir", "Tp"} :
                              IsNan(InstantOf(j, WaveType)[i])
                                <=> gdf[j].dates[i] > WaveTime[Len(WaveTime)]

\* A returned run over a transect without intersections and one with a
\* date in the window and a date after it.
C18_Witness ==
    /\ pc = "returned" /\ Len(gdf) = 2
    /\ gdf[1].interpnt = <<>>
    /\ Len(gdf[2].dates) = 2
    /\ gdf[2].dates[2] > WaveTime[Len(WaveTime)]
    /\ Len(out.WaveTp[2].items) = 2 /\ Len(out.StDevWaveDir[2].items) = 2
    /\ ~IsNan(out.WaveTp[2].items[1]) /\ IsNan(out.WaveTp[2].items[2])
    /\ Len(out.ShoreAngles) = 2

\* C19: for every acquisition time from the first wave timestamp to the
\* last, the last included, an interpolated value, not the missing marker,
\* is appended for each parameter, and nothing is raised in doing so.
C19_WindowInclusive ==
    \A j \in 1..Len(gdf) : \A i \in 1..Len(gdf[j].dates) :
        LET t == gdf[j].dates[i]
        IN  (WaveTime[1] <= t /\ t <= WaveTime[Len(WaveTime)]) =>
              /\ \A WaveType \in {"Hs", "Dir", "Tp"} :
                    /\ Len(InstantOf(j, WaveType)) >= i
                    /\ ~IsNan(InstantOf(j, WaveType)[i])
              /\ ~(/\ raised = "ValueError"
                   /\ j = Len(gdf) /\ i = Len(gdf[j].dates))

(***************************************************************************)
(* TransformWaves: the shoaling loop.  Hs, Dir and Tp are one-dimensional  *)
(* float arrays of the same length, one element per wave condition.  The   *)
(* variables pc, raised and loc hold the position, the exception and the   *)
(* locals of the call.                                                     *)
(***************************************************************************)
MinOf(a, b) == IF a <= b THEN a ELSE b

MaxOf(a, b) == IF a >= b THEN a ELSE b

\* geometry.bounds of a two-point line: (minx, miny, maxx, maxy).
Bounds(geometry) ==
    <<MinOf(geometry[1][1], geometry[2][1]),
      MinOf(geometry[1][2], geometry[2][2]),
      MaxOf(geometry[1][1], geometry[2][1]),
      MaxOf(geometry[1][2], geometry[2][2])>>

\* shoreAngle: 90 minus the angle of the diagonal of the bounds.
TransformShoreAngle(geometry) ==
    LET dX == Bounds(geometry)[3] - Bounds(geometry)[1]
        dY == Bounds(geometry)[4] - Bounds(geometry)[2]
    IN  Flt(90 - Atan2Deg(dY, dX))

\* Dir_mask: the directions strictly between shoreAngle and shoreAngle + 180
\* become NaN.
DirMask(Dir, shoreAngle) ==
    [W \in 1..Len(Dir) |->
        IF FLt(shoreAngle, Dir[W])
           /\ FLt(Dir[W], FAdd(shoreAngle, Flt(180)))
        THEN NaN ELSE Dir[W]]

\* Tp_mask and Hs_mask: NaN, and 0, where Dir_mask is NaN.
TpMask(Tp, Dir_mask) ==
    [W \in 1..Len(Tp) |-> IF IsNan(Dir_mask[W]) THEN NaN ELSE Tp[W]]

HsMask(Hs, Dir_mask) ==
    [W \in 1..Len(Hs) |-> IF IsNan(Dir_mask[W]) THEN Flt(0) ELSE Hs[W]]

\* x[W, 1] for an element x of a one-dimensional float array: a numpy
\* scalar has no items, whatever W is.
ItemOfScalar(x, W) == [raised |-> "IndexError"]

\* The head of the transect loop: the copies, the shore angle, the masks
\* and the counter of breaking waves.
BeginTransformTransect ==
    /\ pc = "transects"
    /\ loc.Tr < Len(call.TransectInterGDF)
    /\ LET shoreAngle ==
               TransformShoreAngle(call.TransectInterGDF[loc.Tr + 1])
           Dir_mask == DirMask(call.Dir, shoreAngle)
       IN  loc' = [Tr |-> loc.Tr + 1, shoreAngle |-> shoreAngle,
                   Hs_mask |-> HsMask(call.Hs, Dir_mask),
                   Dir_mask |-> Dir_mask,
                   Tp_mask |-> TpMask(call.Tp, Dir_mask),
                   Nloop |-> 0, W |-> 0,
                   H_0 |-> NaN, h |-> NaN, BREAK_WAV |-> 0, passes |-> 0]
    /\ pc' = "waves"
    /\ UNCHANGED <<files, log, lastCmd, call, result>>
    /\ UNCHANGED <<grid, gdf, raised, out, Time_1, Prev3Month, lookups>>

\* The head of the wave loop: the offshore height H_0, the depth h at the
\* wave base and the cleared stop flag.
BeginWave ==
    /\ pc = "waves"
    /\ loc.W < Len(call.Hs)
    /\ LET H_0 == loc.Hs_mask[loc.W + 1]
       IN  loc' = [loc EXCEPT !.W = @ + 1, !.H_0 = H_0,
                              !.h = FMul(Flt(3), H_0),
                              !.BREAK_WAV = 0, !.passes = 0]
    /\ pc' = "while"
    /\ UNCHANGED <<files, log, lastCmd, call, result>>
    /\ UNCHANGED <<grid, gdf, raised, out, Time_1, Prev3Month, lookups>>

\* One pass of the while loop.  The wave conditions at depth h, the
\* shoaling and refraction coefficients and Hs_near are computed without
\* raising (the math functions return nan on nan); then Tp_near is read as
\* Tp_maskSh[W, 1], Tp_maskSh being the scalar Tp_mask[W]: the pass ends
\* there, before the breaking test, the lowering of h and the
\* negative-depth catch.
ShoalPass ==
    /\ pc = "while"
    /\ loc.BREAK_WAV = 0
    /\ LET Tp_maskSh == loc.Tp_mask[loc.W]
           Tp_near == ItemOfScalar(Tp_maskSh, loc.W)
       IN  /\ raised' = Tp_near.raised
           /\ pc' = "raised"
    /\ loc' = [loc EXCEPT !.passes = @ + 1]
    /\ UNCHANGED <<files, log, lastCmd, call, result>>
    /\ UNCHANGED <<grid, gdf, out, Time_1, Prev3Month, lookups>>

\* The wave loop is exhausted: the count of breaking waves is printed.
EndTransformTransect ==
    /\ pc = "waves"
    /\ loc.W = Len(call.Hs)
    /\ pc' = "transects"
    /\ UNCHANGED <<files, log, lastCmd, call, result>>
    /\ UNCHANGED <<grid, gdf, raised, out, loc, Time_1, Prev3Month, lookups>>

\* The transect loop is exhausted: the function returns None.
TransformReturn ==
    /\ pc = "transects"
    /\ loc.Tr = Len(call.TransectInterGDF)
    /\ pc' = "returned"
    /\ result' = [done |-> TRUE, value |-> "None"]
    /\ UNCHANGED <<files, log, lastCmd, call>>
    /\ UNCHANGED <<grid, gdf, raised, out, loc, Time_1, Prev3Month, lookups>>

\* Up to MaxShoalTransects transects and MaxWaves wave conditions.
MaxShoalTransects == 2

MaxWaves == 2

\* Transects whose bounds have the diagonal at 0, 45 and 90 degrees.
ShoalGeometries ==
    {<< <<0, 0>>, <<2, 0>> >>, << <<0, 0>>, <<-1, 1>> >>,
     << <<3, 1>>, <<3, 4>> >>}

\* Wave conditions <<Hs, Dir, Tp>>: onshore and offshore-going waves, a
\* calm and a missing direction.
WaveConditions ==
    {<<Flt(1), Flt(300), Flt(8)>>, <<Flt(1), Flt(100), Flt(8)>>,
     <<FNorm(1, 10), Flt(0), Flt(5)>>, <<Flt(0), Flt(45), Flt(8)>>,
     <<Flt(2), NaN, Flt(8)>>}

SeqsUpTo(S, n) == UNION {[1..k -> S] : k \in 0..n}

TransformInit ==
    /\ files = {} /\ log = <<>> /\ lastCmd = "none"
    /\ result = [done |-> FALSE]
    /\ grid = "none" /\ gdf = <<>> /\ out = <<>>
    /\ Time_1 = -1 /\ Prev3Month = 0 /\ lookups = 0
    /\ pc = "transects" /\ raised = "none"
    /\ loc = [Tr |-> 0]
    /\ \E n \in 1..MaxShoalTransects :
       \E TransectInterGDF \in [1..n -> ShoalGeometries],
          waves \in SeqsUpTo(WaveConditions, MaxWaves) :
            call = [fn |-> "TransformWaves",
                    TransectInterGDF |-> TransectInterGDF,
                    Hs |-> [W \in 1..Len(waves) |-> waves[W][1]],
                    Dir |-> [W \in 1..Len(waves) |-> waves[W][2]],
                    Tp |-> [W \in 1..Len(waves) |-> waves[W][3]]]

TransformNext ==
    \/ BeginTransformTransect
    \/ BeginWave
    \/ ShoalPass
    \/ EndTransformTransect
    \/ TransformReturn

SpecTransform == TransformInit /\ [][TransformNext]_vars

\* floor(x) of a float x.
FloorOf(x) == x[1] \div x[2]

\* C20: for every transect and time step with a finite non-negative
\* offshore height H_0, the shoaling loop makes at most floor(30 H_0) + 1
\* passes and does not end before the breaking condition or the
\* negative-depth catch has set the stop flag BREAK_WAV.
C20_ShoalingLoopStops ==
    (pc \in {"while", "raised"} /\ ~IsNan(loc.H_0) /\ loc.H_0[1] >= 0) =>
        /\ loc.passes <= FloorOf(FMul(Flt(30), loc.H_0)) + 1
        /\ pc = "raised" => loc.BREAK_WAV = 1

====
